---- MODULE Spec2Model ----
(***************************************************************************)
(* A model of the VLESS relay worker (core131/cdncf).                      *)
(*                                                                         *)
(* src/unnamed/part_000 holds three variants of worker.js.  The "first     *)
(* variant" is lines 1-952 (handleVLESSConnection with the async           *)
(* parseVLESSHeader), the "second variant" is lines 953-1692 (vlessHandler *)
(* with the synchronous parseVLESSHeader and the async validateUUID), the  *)
(* "third variant" is lines 1693-2419 (the stream-piping                   *)
(* handleVLESSWebSocket).                                                  *)
(*                                                                         *)
(* Text (ids, addresses) is a sequence of character codes.  A buffer is a  *)
(* sequence of bytes 0..255; the code's 0-based offsets are kept.          *)
(*                                                                         *)
(* One step of the model is one turn of the JavaScript event loop: a       *)
(* handler runs from the event (or from the completion of the operation it *)
(* awaits) up to its next await of an I/O operation or to its end.         *)
(***************************************************************************)
EXTENDS Integers, Sequences, FiniteSets, TLC

(***************************************************************************)
(* Bounds of the model.                                                    *)
(***************************************************************************)
\* client frames delivered to one session
MaxFrames == 2
\* chunks one remote connection produces before it ends
MaxChunks == 2
\* client frames delivered to one session that relays (SpecV1Relay)
MaxRelayFrames == 3

(***************************************************************************)
(* Program constants.                                                      *)
(***************************************************************************)
\* parseVLESSHeader: if (vlessBuffer.byteLength < 24)
MinHeaderLen == 24
\* webSocket.close(1008, 'Invalid VLESS header')
PolicyViolation == 1008
\* webSocket.close(1011, ...)
InternalError == 1011
\* webSocket.close() without a code (pipeRemoteToWebSocket's finally)
NoCode == 0
\* safeClose(ws, code = 1000, reason = '')
NormalClose == 1000
\* the value of a typed-array read past the end (JavaScript's undefined)
Undef == -1

Min(a, b) == IF a < b THEN a ELSE b

(***************************************************************************)
(* Typed-array primitives.                                                 *)
(***************************************************************************)
\* vlessBuffer[offset]: undefined past the end
At(buf, off) == IF off >= 0 /\ off < Len(buf) THEN buf[off + 1] ELSE Undef

\* vlessBuffer.slice(from, to): clamped to the buffer
Slice(buf, from, to) == SubSeq(buf, Min(from, Len(buf)) + 1, Min(to, Len(buf)))

\* ToInt32 of an operand of << or |: undefined becomes 0
ToInt32(b) == IF b = Undef THEN 0 ELSE b

\* as Word, with the two bytes taken in little-endian order
WordLittleEndian(hi, lo) == ToInt32(lo) * 256 + ToInt32(hi)

\* (hi << 8) | lo
Word(hi, lo) == ToInt32(hi) * 256 + ToInt32(lo)

(***************************************************************************)
(* Number formatting.                                                      *)
(***************************************************************************)
\* the character codes of "0123456789abcdef"
HexDigits == <<48, 49, 50, 51, 52, 53, 54, 55, 56, 57, 97, 98, 99, 100, 101, 102>>

\* the character codes of "undefined"
UndefinedText == <<117, 110, 100, 101, 102, 105, 110, 101, 100>>

RECURSIVE ToStringRadix(_, _)
\* n.toString(radix) for n >= 0: no leading zeros, "0" for 0
ToStringRadix(n, radix) ==
    IF n < radix THEN <<HexDigits[n + 1]>>
    ELSE ToStringRadix(n \div radix, radix) \o <<HexDigits[(n % radix) + 1]>>

\* as HexByte, without padStart(2, '0')
HexByteUnpadded(b) == ToStringRadix(b, 16)

\* b.toString(16).padStart(2, '0')
HexByte(b) ==
    LET s == ToStringRadix(b, 16)
    IN  IF Len(s) < 2 THEN <<HexDigits[1]>> \o s ELSE s

\* `${x}` of a byte read: decimal, or "undefined" past the end
Template(b) == IF b = Undef THEN UndefinedText ELSE ToStringRadix(b, 10)

RECURSIVE Join(_, _)
\* parts.join(sep)
Join(parts, sep) ==
    IF Len(parts) = 0 THEN <<>>
    ELSE IF Len(parts) = 1 THEN parts[1]
    ELSE parts[1] \o sep \o Join(Tail(parts), sep)

RECURSIVE HexOf(_)
\* Array.from(bytes).map(b => b.toString(16).padStart(2, '0')).join('')
HexOf(bytes) ==
    IF Len(bytes) = 0 THEN <<>> ELSE HexByte(bytes[1]) \o HexOf(Tail(bytes))

\* hex.substring(from, to)
Substring(s, from, to) == SubSeq(s, Min(from, Len(s)) + 1, Min(to, Len(s)))

\* bytesToUUID: 8-4-4-4-12 lowercase hex groups joined by "-"
bytesToUUID(bytes) ==
    LET hex == HexOf(bytes)
    IN  Join(<<Substring(hex, 0, 8), Substring(hex, 8, 12), Substring(hex, 12, 16),
               Substring(hex, 16, 20), Substring(hex, 20, 32)>>, <<45>>)

\* bytesToIPv6: eight big-endian 16-bit groups in hex, joined by ":"
bytesToIPv6(bytes) ==
    Join([k \in 1..8 |->
            ToStringRadix(Word(At(bytes, 2 * (k - 1)), At(bytes, 2 * (k - 1) + 1)), 16)],
         <<58>>)

\* new TextDecoder().decode(bytes): an ASCII byte is its character; any other
\* byte is shown as U+FFFD (best-effort decoding, never an error)
TextDecode(bytes) == [k \in 1..Len(bytes) |-> IF bytes[k] < 128 THEN bytes[k] ELSE 65533]

(***************************************************************************)
(* parseVLESSHeader, first variant (async, part_000:335-425).  The function *)
(* awaits the credential store once; ParseBeforeLookup is the part up to   *)
(* that await and ParseAfterLookup the part that runs when it resolves.    *)
(***************************************************************************)
Invalid(msg) == [isValid |-> FALSE, error |-> <<msg>>]

\* the key handed to env.VLESS_ACCOUNTS.get
LookupKey(buf) == bytesToUUID(Slice(buf, 1, 17))

\* as ParseBeforeLookup, without the check of the length
ParseBeforeLookupAnyLength(buf) ==
    IF At(buf, 0) # 0
    THEN [awaits |-> FALSE, result |-> Invalid("Invalid VLESS version")]
    ELSE [awaits |-> TRUE, result |-> Invalid("")]

\* as ParseBeforeLookup, without the check of the version
ParseBeforeLookupAnyVersion(buf) ==
    IF Len(buf) < MinHeaderLen
    THEN [awaits |-> FALSE, result |-> Invalid("Buffer too short")]
    ELSE [awaits |-> TRUE, result |-> Invalid("")]

\* the part up to the await: a result at once (awaits = FALSE), or the lookup
ParseBeforeLookup(buf) ==
    IF Len(buf) < MinHeaderLen
    THEN [awaits |-> FALSE, result |-> Invalid("Buffer too short")]
    ELSE IF At(buf, 0) # 0
    THEN [awaits |-> FALSE, result |-> Invalid("Invalid VLESS version")]
    ELSE [awaits |-> TRUE, result |-> Invalid("")]

\* as ParseAddress, with every other address type taken as an empty address
ParseAddressAnyType(buf, addressType, off) ==
    IF addressType = 1 THEN
        [ok |-> TRUE,
         address |-> Join(<<Template(At(buf, off)), Template(At(buf, off + 1)),
                            Template(At(buf, off + 2)), Template(At(buf, off + 3))>>, <<46>>),
         next |-> off + 4]
    ELSE IF addressType = 2 THEN
        [ok |-> TRUE,
         address |-> TextDecode(Slice(buf, off + 1, off + 1 + ToInt32(At(buf, off)))),
         next |-> off + 1 + ToInt32(At(buf, off))]
    ELSE IF addressType = 3 THEN
        [ok |-> TRUE, address |-> bytesToIPv6(Slice(buf, off, off + 16)), next |-> off + 16]
    ELSE [ok |-> TRUE, address |-> <<>>, next |-> off]

\* the address and the offset after it, by address type at offset `off`
ParseAddress(buf, addressType, off) ==
    IF addressType = 1 THEN
        [ok |-> TRUE,
         address |-> Join(<<Template(At(buf, off)), Template(At(buf, off + 1)),
                            Template(At(buf, off + 2)), Template(At(buf, off + 3))>>, <<46>>),
         next |-> off + 4]
    ELSE IF addressType = 2 THEN
        LET domainLength == At(buf, off)
            \* offset + undefined is NaN: slice(NaN, NaN) is empty, slice(NaN) is everything
            start == IF domainLength = Undef THEN 0 ELSE off + 1
            stop  == IF domainLength = Undef THEN 0 ELSE off + 1 + domainLength
        IN  [ok |-> TRUE,
             address |-> TextDecode(Slice(buf, start, stop)),
             next |-> stop]
    ELSE IF addressType = 3 THEN
        [ok |-> TRUE, address |-> bytesToIPv6(Slice(buf, off, off + 16)), next |-> off + 16]
    ELSE [ok |-> FALSE, address |-> <<>>, next |-> off]

\* as ParseFields, without the check of the command
ParseFieldsAnyCommand(buf) ==
    LET cmdOff == 18 + At(buf, 17)
        addressType == At(buf, cmdOff + 3)
        addr == ParseAddress(buf, addressType, cmdOff + 4)
    IN  IF ~addr.ok THEN Invalid("Invalid address type")
        ELSE [isValid |-> TRUE,
              error |-> <<>>,
              uuid |-> LookupKey(buf),
              command |-> At(buf, cmdOff),
              port |-> Word(At(buf, cmdOff + 1), At(buf, cmdOff + 2)),
              addressType |-> addressType,
              address |-> addr.address,
              remainingData |-> Slice(buf, addr.next, Len(buf))]

\* the fields after the id: addons, command, port, address, payload
ParseFields(buf) ==
    LET additionLength == At(buf, 17)
        cmdOff == 18 + additionLength
        command == At(buf, cmdOff)
        port == Word(At(buf, cmdOff + 1), At(buf, cmdOff + 2))
        addressType == At(buf, cmdOff + 3)
        addr == ParseAddress(buf, addressType, cmdOff + 4)
    IN  IF command # 1 THEN Invalid("Only TCP is supported")
        ELSE IF ~addr.ok THEN Invalid("Invalid address type")
        ELSE [isValid |-> TRUE,
              error |-> <<>>,
              uuid |-> LookupKey(buf),
              command |-> command,
              port |-> port,
              addressType |-> addressType,
              address |-> addr.address,
              remainingData |-> Slice(buf, addr.next, Len(buf))]

\* as ParseAfterLookup, without the check of the store's answer
ParseAfterLookupUnchecked(buf, found) == ParseFields(buf)

\* the part of parseVLESSHeader after `account` is known
ParseAfterLookup(buf, found) ==
    IF ~found THEN Invalid("Invalid UUID") ELSE ParseFields(buf)

\* parseVLESSHeader as one function of the buffer and the store
parseVLESSHeader(buf, store) ==
    IF ParseBeforeLookup(buf).awaits
    THEN ParseAfterLookup(buf, LookupKey(buf) \in store)
    ELSE ParseBeforeLookup(buf).result

(***************************************************************************)
(* The frames a client may send.  Header builds the wire format            *)
(* version | id(16) | addonLen | addons | command | port(2) | addrType |   *)
(* address | payload.                                                      *)
(***************************************************************************)
Header(version, id, addons, command, port, addrType, addr, payload) ==
    <<version>> \o id \o <<Len(addons)>> \o addons \o <<command>>
        \o <<port \div 256, port % 256>> \o <<addrType>> \o addr \o payload

\* an id with a record in the credential store, and one without
KnownId   == <<18, 52, 86, 120, 154, 188, 222, 240, 1, 35, 69, 103, 137, 171, 205, 239>>
OtherId   == <<17, 17, 34, 34, 51, 51, 68, 68, 85, 85, 102, 102, 119, 119, 136, 136>>
UnknownId == <<0, 0, 0, 0, 0, 0, 0, 0, 0, 0, 0, 0, 0, 0, 0, 255>>

\* the credential store: the keys that have a record (read-only for the relay)
Store == {bytesToUUID(KnownId), bytesToUUID(OtherId)}

\* "GET /" and "example.com"
PayloadBytes == <<71, 69, 84, 32, 47>>
DomainBytes  == <<101, 120, 97, 109, 112, 108, 101, 46, 99, 111, 109>>

FrameBufs ==
    << \* 1: known id, IPv4 10.0.0.5:80, with an initial payload
       Header(0, KnownId, <<>>, 1, 80, 1, <<10, 0, 0, 5>>, PayloadBytes),
       \* 2: another known id, domain example.com:443, no payload
       Header(0, OtherId, <<>>, 1, 443, 2, <<11>> \o DomainBytes, <<>>),
       \* 3: unknown id, otherwise as frame 1
       Header(0, UnknownId, <<>>, 1, 80, 1, <<10, 0, 0, 5>>, PayloadBytes),
       \* 4: known id, command 2 (UDP)
       Header(0, KnownId, <<>>, 2, 53, 1, <<10, 0, 0, 5>>, PayloadBytes),
       \* 5: a short data frame
       <<104, 105>>,
       \* 6: 24 bytes whose version byte is 1
       <<1>> \o KnownId \o <<0, 1, 0, 80, 1, 10, 0>>,
       \* 7: known id, address type 4
       Header(0, KnownId, <<>>, 1, 80, 4, <<10, 0, 0, 5>>, <<>>)
    >>

\* every frame above
FrameKinds == 1..Len(FrameBufs)

\* parseVLESSHeader on each frame above, for either answer of the store
FrameParse ==
    [b \in FrameKinds |->
        [before |-> ParseBeforeLookup(FrameBufs[b]),
         key |-> LookupKey(FrameBufs[b]),
         after |-> [found \in BOOLEAN |-> ParseAfterLookup(FrameBufs[b], found)]]]

(***************************************************************************)
(* The state of one session.                                               *)
(***************************************************************************)
VARIABLES
    variant,         \* which variant of the worker runs the session (1 or 2)
    kvBound,         \* the credential store is bound in env (env.VLESS_KV is set)
    frames,          \* the frames delivered as message events, in arrival order
    handlers,        \* handlers[i]: the message handler invocation for frames[i]
    isHeaderParsed,  \* let isHeaderParsed / headerParsed
    remoteSocket,    \* let remoteSocket / remote: 0 is null, else an index of remotes
    remotes,         \* the connect() calls and the sockets they returned, in call order
    wsState,         \* webSocket.readyState
    closeCode,       \* <<>>, or <<code>> of the close() call that closed the transport
    closeCalls,      \* the number of webSocket.close() calls
    errorSeen,       \* an error event was delivered to the session
    parser,          \* a call of parseVLESSHeader observed on its own (ParserIdle in a session)
    peer,            \* the state of a second session of the same worker (NoPeer if none)
    active,          \* which of two sessions the variables above describe (1 or 2)
    stream,          \* a stream of makeReadableWebSocketStream observed on its own
    ui,              \* the state of the React component VLESSVPNApp (UiIdle in the worker)
    upgrade          \* the upgrade request of a session, as fetch handles it (UpgradeIdle
                     \* where the session is taken as set up)

vars == <<variant, kvBound, frames, handlers, isHeaderParsed, remoteSocket, remotes, wsState,
          closeCode, closeCalls, errorSeen, parser, peer, active, stream, ui, upgrade>>

\* no parseVLESSHeader call is observed on its own
ParserIdle == [pc |-> "idle"]

\* the session state after handleVLESSConnection / vlessHandler has set it up
SessionInit ==
    /\ frames = <<>>
    /\ handlers = <<>>
    /\ isHeaderParsed = FALSE
    /\ remoteSocket = 0
    /\ remotes = <<>>
    /\ wsState = "OPEN"
    /\ closeCode = <<>>
    /\ closeCalls = 0
    /\ errorSeen = FALSE

\* no second session
NoPeer == [pc |-> "none"]

\* no stream is observed on its own
StreamIdle == [pc |-> "none"]

\* the front end is not observed
UiIdle == [pc |-> "none"]

\* the upgrade request is not observed
UpgradeIdle == [pc |-> "none"]

\* one session and nothing else
Alone ==
    /\ peer = NoPeer
    /\ active = 1
    /\ stream = StreamIdle
    /\ ui = UiIdle
    /\ upgrade = UpgradeIdle

Init == SessionInit /\ parser = ParserIdle /\ Alone

\* as CloseState, with a close() that leaves the transport open
CloseStateStaysOpen(state) == state

\* readyState after webSocket.close(): a no-op unless the transport is open
CloseState(state) == IF state = "OPEN" THEN "CLOSING" ELSE state

\* the close code the transport carries after webSocket.close(code)
CloseCode(state, sofar, code) == IF state = "OPEN" THEN <<code>> ELSE sofar

\* a message handler invocation.  pc: "lookup" (awaits the store), "initwrite"
\* or "fwdwrite" (awaits writer.write on remote r), "done".  parsed: the frame
\* was passed to parseVLESSHeader.  found: the store's answer ("" if not asked).
\* outcome: "" or why the handler closed the transport / dropped the frame.
\* error: the error of the parse result (<<>> if none).
Handler(pc, r, parsed, found, outcome, error) ==
    [pc |-> pc, r |-> r, parsed |-> parsed, found |-> found, outcome |-> outcome,
     error |-> error]

\* a connect() call by the handler of frame f.  opened: connect() returned a
\* socket (pipeRemoteToWebSocket took its reader and issued the first read).
Remote(f, key, address, port, opened) ==
    [frame |-> f, key |-> key, hostname |-> address, port |-> port,
     opened |-> opened,
     closed |-> FALSE,      \* remoteSocket.close() was called
     locked |-> FALSE,      \* remoteSocket.writable is locked to a writer
     loop |-> IF opened THEN "reading" ELSE "none",
                            \* the copy loop: "reading" (awaits reader.read()), or how
                            \* it ended: "eof", "error", "stopped" (transport not open)
     reads |-> IF opened THEN 1 ELSE 0,   \* reader.read() calls issued
     got |-> 0,             \* chunks those reads returned
     sent |-> <<>>,         \* the chunks passed to webSocket.send(), by number
     written |-> <<>>]      \* the writer.write() calls: [frame, part]

(***************************************************************************)
(* First variant: handleVLESSConnection (part_000:245-328) and             *)
(* pipeRemoteToWebSocket (part_000:430-457).                               *)
(***************************************************************************)
InitV1 == Init /\ variant = 1 /\ kvBound = TRUE

\* if (!isHeaderParsed): the frame is taken as the header
TakesHeaderBranch(parsed) == ~parsed

\* the message handler, from the event to its first await of I/O, in a session
\* of at most `limit` frames
V1Deliver(b, limit) ==
    /\ variant = 1
    /\ wsState = "OPEN"
    /\ Len(frames) < limit
    /\ frames' = Append(frames, b)
    /\ LET f == Len(frames) + 1
       IN  IF TakesHeaderBranch(isHeaderParsed) THEN
               /\ IF FrameParse[b].before.awaits THEN
                      \* await env.VLESS_ACCOUNTS.get(uuid)
                      /\ handlers' = Append(handlers,
                                            Handler("lookup", 0, TRUE, "", "", <<>>))
                      /\ UNCHANGED <<wsState, closeCode, closeCalls>>
                  ELSE
                      \* !result.isValid: webSocket.close(1008, ...)
                      /\ handlers' = Append(handlers,
                            Handler("done", 0, TRUE, "", "header",
                                    FrameParse[b].before.result.error))
                      /\ closeCode' = CloseCode(wsState, closeCode, PolicyViolation)
                      /\ closeCalls' = closeCalls + 1
                      /\ wsState' = CloseState(wsState)
               /\ UNCHANGED remotes
           ELSE IF remoteSocket # 0 THEN
               IF remotes[remoteSocket].locked THEN
                   \* getWriter() throws on a locked stream: the outer catch
                   /\ handlers' = Append(handlers, Handler("done", 0, FALSE, "", "locked", <<>>))
                   /\ closeCode' = CloseCode(wsState, closeCode, InternalError)
                   /\ closeCalls' = closeCalls + 1
                   /\ wsState' = CloseState(wsState)
                   /\ UNCHANGED remotes
               ELSE
                   \* getWriter(); await writer.write(event.data)
                   /\ handlers' = Append(handlers,
                                         Handler("fwdwrite", remoteSocket, FALSE, "", "", <<>>))
                   /\ remotes' = [remotes EXCEPT
                         ![remoteSocket].locked = TRUE,
                         ![remoteSocket].written =
                             Append(@, [frame |-> f, part |-> "frame"])]
                   /\ UNCHANGED <<wsState, closeCode, closeCalls>>
           ELSE
               \* remoteSocket is null: the frame is ignored
               /\ handlers' = Append(handlers, Handler("done", 0, FALSE, "", "ignored", <<>>))
               /\ UNCHANGED <<wsState, closeCode, closeCalls, remotes>>
    /\ UNCHANGED <<upgrade, ui, peer, active, stream,
                   parser, variant, kvBound, isHeaderParsed, remoteSocket, errorSeen>>

\* the message event of one of up to MaxFrames frames
V1Message(b) == V1Deliver(b, MaxFrames)

\* the store answers the lookup of frame f; the handler runs on to the await of
\* the initial write, or to its end.  throws: connect() throws.
V1LookupComplete(f, throws) ==
    /\ variant = 1
    /\ f \in DOMAIN handlers
    /\ handlers[f].pc = "lookup"
    /\ LET found == FrameParse[frames[f]].key \in Store
           answer == IF found THEN "yes" ELSE "no"
           result == FrameParse[frames[f]].after[found]
           new == Len(remotes) + 1
       IN  IF ~result.isValid THEN
               /\ handlers' = [handlers EXCEPT
                                 ![f] = Handler("done", 0, TRUE, answer, "header",
                                                result.error)]
               /\ closeCode' = CloseCode(wsState, closeCode, PolicyViolation)
               /\ closeCalls' = closeCalls + 1
               /\ wsState' = CloseState(wsState)
               /\ UNCHANGED <<isHeaderParsed, remoteSocket, remotes>>
           ELSE
               /\ isHeaderParsed' = TRUE
               /\ IF throws THEN
                      /\ remotes' = Append(remotes,
                            Remote(f, result.uuid, result.address, result.port, FALSE))
                      /\ handlers' = [handlers EXCEPT
                                        ![f] = Handler("done", 0, TRUE, answer, "connect", <<>>)]
                      /\ closeCode' = CloseCode(wsState, closeCode, InternalError)
                      /\ closeCalls' = closeCalls + 1
                      /\ wsState' = CloseState(wsState)
                      /\ UNCHANGED remoteSocket
                  ELSE
                      /\ remoteSocket' = new
                      /\ UNCHANGED <<closeCode, closeCalls, wsState>>
                      /\ IF Len(result.remainingData) > 0 THEN
                             /\ remotes' = Append(remotes,
                                   [Remote(f, result.uuid, result.address, result.port, TRUE)
                                       EXCEPT !.locked = TRUE,
                                              !.written = <<[frame |-> f, part |-> "initial"]>>])
                             /\ handlers' = [handlers EXCEPT
                                               ![f] = Handler("initwrite", new, TRUE, answer,
                                                              "", <<>>)]
                         ELSE
                             /\ remotes' = Append(remotes,
                                   Remote(f, result.uuid, result.address, result.port, TRUE))
                             /\ handlers' = [handlers EXCEPT
                                               ![f] = Handler("done", 0, TRUE, answer, "",
                                                              <<>>)]
    /\ UNCHANGED <<upgrade, ui, peer, active, stream, parser, variant, kvBound, frames, errorSeen>>

\* await writer.write(...) settles; writer.releaseLock() runs only if it resolved
V1WriteComplete(f, ok) ==
    /\ variant = 1
    /\ f \in DOMAIN handlers
    /\ handlers[f].pc \in {"initwrite", "fwdwrite"}
    /\ IF ok THEN
           /\ handlers' = [handlers EXCEPT ![f].pc = "done", ![f].r = 0]
           /\ remotes' = [remotes EXCEPT ![handlers[f].r].locked = FALSE]
           /\ UNCHANGED <<closeCode, closeCalls, wsState>>
       ELSE
           /\ handlers' = [handlers EXCEPT
                 ![f].pc = "done", ![f].r = 0,
                 ![f].outcome = IF handlers[f].pc = "initwrite" THEN "connect" ELSE "write"]
           /\ closeCode' = CloseCode(wsState, closeCode, InternalError)
           /\ closeCalls' = closeCalls + 1
           /\ wsState' = CloseState(wsState)
           /\ UNCHANGED remotes
    /\ UNCHANGED <<upgrade, ui, peer, active, stream,
                   parser, variant, kvBound, frames, isHeaderParsed, remoteSocket, errorSeen>>

\* the loop body of pipeRemoteToWebSocket for one chunk read: whether the chunk
\* is sent and whether the loop reads again
PipeStepNoBreak(state) == [send |-> state = "OPEN", again |-> TRUE]

\* as PipeStep, sending without the check of the state
PipeStepSendsUnchecked(state) == [send |-> TRUE, again |-> state = "OPEN"]

PipeStep(state) ==
    IF state = "OPEN" THEN [send |-> TRUE, again |-> TRUE]
    ELSE [send |-> FALSE, again |-> FALSE]

\* await reader.read() of remote r returns a chunk
V1RemoteChunk(r) ==
    /\ variant = 1
    /\ r \in DOMAIN remotes
    /\ remotes[r].loop = "reading"
    /\ ~remotes[r].closed
    /\ remotes[r].got < MaxChunks
    /\ LET step == PipeStep(wsState)
           got == remotes[r].got + 1
       IN  /\ remotes' = [remotes EXCEPT
                 ![r].got = got,
                 ![r].sent = IF step.send THEN Append(@, got) ELSE @,
                 ![r].reads = IF step.again THEN @ + 1 ELSE @,
                 ![r].loop = IF step.again THEN "reading" ELSE "stopped"]
           /\ IF step.again THEN UNCHANGED <<closeCode, closeCalls, wsState>>
              ELSE \* finally: webSocket.close()
                   /\ closeCode' = CloseCode(wsState, closeCode, NoCode)
                   /\ closeCalls' = closeCalls + 1
                   /\ wsState' = CloseState(wsState)
    /\ UNCHANGED <<upgrade, ui, peer, active, stream,
                   parser, variant, kvBound, frames, handlers, isHeaderParsed, remoteSocket, errorSeen>>

\* await reader.read() of remote r reports the end of the stream ("eof") or
\* throws ("error"); finally: webSocket.close()
V1RemoteEnd(r, how) ==
    /\ variant = 1
    /\ r \in DOMAIN remotes
    /\ remotes[r].loop = "reading"
    /\ remotes' = [remotes EXCEPT ![r].loop = how]
    /\ closeCode' = CloseCode(wsState, closeCode, NoCode)
    /\ closeCalls' = closeCalls + 1
    /\ wsState' = CloseState(wsState)
    /\ UNCHANGED <<upgrade, ui, peer, active, stream,
                   parser, variant, kvBound, frames, handlers, isHeaderParsed, remoteSocket, errorSeen>>

\* as ClosedOnClose, with a close handler that closes nothing
ClosedOnCloseNothing(current) == {}

\* the sockets the close handler closes: if (remoteSocket) remoteSocket.close()
ClosedOnClose(current) == IF current # 0 THEN {current} ELSE {}

\* the close event of the client transport
V1Close ==
    /\ variant = 1
    /\ wsState # "CLOSED"
    /\ wsState' = "CLOSED"
    /\ remotes' = [r \in DOMAIN remotes |->
                     IF r \in ClosedOnClose(remoteSocket)
                     THEN [remotes[r] EXCEPT !.closed = TRUE] ELSE remotes[r]]
    /\ UNCHANGED <<upgrade, ui, peer, active, stream,
                   parser, variant, kvBound, frames, handlers, isHeaderParsed, remoteSocket, closeCode,
                   closeCalls, errorSeen>>

\* the error event of the client transport: console.error only
V1Error ==
    /\ variant = 1
    /\ wsState # "CLOSED"
    /\ errorSeen' = TRUE
    /\ UNCHANGED <<upgrade, ui, peer, active, stream,
                   parser, variant, kvBound, frames, handlers, isHeaderParsed, remoteSocket, remotes,
                   wsState, closeCode, closeCalls>>

(***************************************************************************)
(* SpecV1: the session life cycle and the upload direction.  The client    *)
(* sends up to MaxFrames frames; the remote sockets end or fail without    *)
(* sending data.                                                           *)
(***************************************************************************)
NextV1 ==
    \/ \E b \in FrameKinds : V1Message(b)
    \/ \E f \in 1..MaxFrames, throws \in BOOLEAN : V1LookupComplete(f, throws)
    \/ \E f \in 1..MaxFrames, ok \in BOOLEAN : V1WriteComplete(f, ok)
    \/ \E r \in 1..MaxFrames, how \in {"eof", "error"} : V1RemoteEnd(r, how)
    \/ V1Close
    \/ V1Error

SpecV1 == InitV1 /\ [][NextV1]_vars

(***************************************************************************)
(* SpecV1Down: the download direction.  The client sends one frame, of any *)
(* kind; the remote socket sends up to MaxChunks chunks.                   *)
(***************************************************************************)
V1FirstMessage(b) == Len(frames) = 0 /\ V1Message(b)

NextV1Down ==
    \/ \E b \in FrameKinds : V1FirstMessage(b)
    \/ \E throws \in BOOLEAN : V1LookupComplete(1, throws)
    \/ \E ok \in BOOLEAN : V1WriteComplete(1, ok)
    \/ V1RemoteChunk(1)
    \/ \E how \in {"eof", "error"} : V1RemoteEnd(1, how)
    \/ V1Close
    \/ V1Error

SpecV1Down == InitV1 /\ [][NextV1Down]_vars

(***************************************************************************)
(* Second variant: parseVLESSHeader (part_000:1196-1277, synchronous),     *)
(* validateUUID (1280-1288), vlessHandler (1089-1164), remoteToWebSocket   *)
(* (1167-1193), safeClose (1303-1311).                                     *)
(***************************************************************************)
\* validateUUID(uuid, env) is an async function: what the call returns is a
\* Promise, whatever the store will answer
validateUUID(found) == "promise"

\* const isValid = env.VLESS_KV ? validateUUID(uuid, env) : true
IsValidValue(bound, found) == IF bound THEN validateUUID(found) ELSE "true"

\* !v for the values above: a Promise is an object, and !object is false
Not(v) == v \notin {"promise", "true"}

InvalidV2(error) == [valid |-> FALSE, error |-> error]

\* the address and the offset after it (part_000:1241-1261)
ParseAddressV2(buf, addrType, off) ==
    IF addrType = 1 THEN
        [ok |-> TRUE,
         address |-> Join(<<Template(At(buf, off)), Template(At(buf, off + 1)),
                            Template(At(buf, off + 2)), Template(At(buf, off + 3))>>, <<46>>),
         next |-> off + 4]
    ELSE IF addrType = 2 THEN
        LET domainLen == At(buf, off)
            start == IF domainLen = Undef THEN 0 ELSE off + 1
            stop  == IF domainLen = Undef THEN 0 ELSE off + 1 + domainLen
        IN  [ok |-> TRUE,
             address |-> TextDecode(Slice(buf, start, stop)),
             next |-> stop]
    ELSE IF addrType = 3 THEN
        [ok |-> TRUE,
         address |-> Join([k \in 1..8 |->
                             ToStringRadix(Word(At(buf, off + 2 * (k - 1)),
                                                At(buf, off + 2 * (k - 1) + 1)), 16)],
                          <<58>>),
         next |-> off + 16]
    ELSE [ok |-> FALSE, address |-> <<>>, next |-> off]

\* parseVLESSHeader(buffer, env) of the second variant; found: whether the
\* store holds the id
parseVLESSHeaderV2(buf, bound, found) ==
    IF Len(buf) < MinHeaderLen THEN InvalidV2(<<"Buffer too short">>)
    ELSE IF At(buf, 0) # 0 THEN InvalidV2(<<"Invalid version", At(buf, 0)>>)
    ELSE IF Not(IsValidValue(bound, found)) THEN InvalidV2(<<"Unauthorized UUID">>)
    ELSE
    LET addLen == At(buf, 17)
        cmdOff == 18 + addLen
        command == At(buf, cmdOff)
        port == Word(At(buf, cmdOff + 1), At(buf, cmdOff + 2))
        addrType == At(buf, cmdOff + 3)
        addr == ParseAddressV2(buf, addrType, cmdOff + 4)
    IN  IF command # 1 THEN InvalidV2(<<"Unsupported command", command>>)
        ELSE IF ~addr.ok THEN InvalidV2(<<"Invalid address type", addrType>>)
        ELSE [valid |-> TRUE,
              error |-> <<>>,
              uuid |-> LookupKey(buf),
              address |-> addr.address,
              port |-> port,
              payload |-> Slice(buf, addr.next, Len(buf))]

\* the second variant's parseVLESSHeader on each frame, by whether the store
\* is bound
FrameParseV2 ==
    [b \in FrameKinds |->
        [bound \in BOOLEAN |->
            parseVLESSHeaderV2(FrameBufs[b], bound,
                               Len(FrameBufs[b]) >= 17 /\ LookupKey(FrameBufs[b]) \in Store)]]

\* the parse of frame kind b reaches the validateUUID call
CallsValidateUUID(b, bound) ==
    bound /\ Len(FrameBufs[b]) >= MinHeaderLen /\ At(FrameBufs[b], 0) = 0

\* as SafeCloseCalls, without the check of the state
SafeCloseCallsAlways(state) == TRUE

\* safeClose: ws.close is called only in these states
SafeCloseCalls(state) == state \in {"OPEN", "CONNECTING"}

InitV2 == Init /\ variant = 2 /\ kvBound = TRUE

\* the second variant deployed without a credential store binding
InitV2Unbound == Init /\ variant = 2 /\ kvBound = FALSE

\* the message handler, from the event to its first await
V2Message(b) ==
    /\ variant = 2
    /\ wsState = "OPEN"
    /\ Len(frames) < MaxFrames
    /\ frames' = Append(frames, b)
    /\ IF TakesHeaderBranch(isHeaderParsed) THEN
           \* await data.arrayBuffer()
           /\ handlers' = Append(handlers, Handler("decode", 0, FALSE, "", "", <<>>))
           /\ UNCHANGED <<wsState, closeCode, closeCalls, remotes>>
       ELSE IF remoteSocket # 0 THEN
           IF remotes[remoteSocket].locked THEN
               \* getWriter() throws on a locked stream: safeClose(ws, 1011, ...)
               /\ handlers' = Append(handlers, Handler("done", 0, FALSE, "", "locked", <<>>))
               /\ closeCode' = IF SafeCloseCalls(wsState) THEN <<InternalError>> ELSE closeCode
               /\ closeCalls' = closeCalls + (IF SafeCloseCalls(wsState) THEN 1 ELSE 0)
               /\ wsState' = IF SafeCloseCalls(wsState) THEN "CLOSING" ELSE wsState
               /\ UNCHANGED remotes
           ELSE
               \* getWriter(); await data.arrayBuffer()
               /\ handlers' = Append(handlers,
                                     Handler("fwddecode", remoteSocket, FALSE, "", "", <<>>))
               /\ remotes' = [remotes EXCEPT ![remoteSocket].locked = TRUE]
               /\ UNCHANGED <<wsState, closeCode, closeCalls>>
       ELSE
           /\ handlers' = Append(handlers, Handler("done", 0, FALSE, "", "ignored", <<>>))
           /\ UNCHANGED <<wsState, closeCode, closeCalls, remotes>>
    /\ UNCHANGED <<upgrade, ui, peer, active, stream,
                   parser, variant, kvBound, isHeaderParsed, remoteSocket, errorSeen>>

\* data.arrayBuffer() of the header frame f resolves: the header is parsed and
\* the handler runs on to the await of the initial write, or to its end.
\* throws: connect() throws.
V2HeaderDecoded(f, throws) ==
    /\ variant = 2
    /\ f \in DOMAIN handlers
    /\ handlers[f].pc = "decode"
    /\ LET parseResult == FrameParseV2[frames[f]][kvBound]
           asked == IF CallsValidateUUID(frames[f], kvBound) THEN "unused" ELSE ""
           new == Len(remotes) + 1
       IN  IF ~parseResult.valid THEN
               \* safeClose(ws, 1008, parseResult.error)
               /\ handlers' = [handlers EXCEPT
                     ![f] = Handler("done", 0, TRUE, asked, "header", parseResult.error)]
               /\ closeCode' = IF SafeCloseCalls(wsState) THEN <<PolicyViolation>> ELSE closeCode
               /\ closeCalls' = closeCalls + (IF SafeCloseCalls(wsState) THEN 1 ELSE 0)
               /\ wsState' = IF SafeCloseCalls(wsState) THEN "CLOSING" ELSE wsState
               /\ UNCHANGED <<isHeaderParsed, remoteSocket, remotes>>
           ELSE
               /\ isHeaderParsed' = TRUE
               /\ IF throws THEN
                      /\ remotes' = Append(remotes,
                            Remote(f, parseResult.uuid, parseResult.address,
                                   parseResult.port, FALSE))
                      /\ handlers' = [handlers EXCEPT
                            ![f] = Handler("done", 0, TRUE, asked, "connect", <<>>)]
                      /\ closeCode' = IF SafeCloseCalls(wsState) THEN <<InternalError>>
                                      ELSE closeCode
                      /\ closeCalls' = closeCalls + (IF SafeCloseCalls(wsState) THEN 1 ELSE 0)
                      /\ wsState' = IF SafeCloseCalls(wsState) THEN "CLOSING" ELSE wsState
                      /\ UNCHANGED remoteSocket
                  ELSE
                      /\ remoteSocket' = new
                      /\ UNCHANGED <<closeCode, closeCalls, wsState>>
                      /\ IF Len(parseResult.payload) > 0 THEN
                             /\ remotes' = Append(remotes,
                                   [Remote(f, parseResult.uuid, parseResult.address,
                                           parseResult.port, TRUE)
                                       EXCEPT !.locked = TRUE,
                                              !.written = <<[frame |-> f, part |-> "initial"]>>])
                             /\ handlers' = [handlers EXCEPT
                                   ![f] = Handler("initwrite", new, TRUE, asked, "", <<>>)]
                         ELSE
                             /\ remotes' = Append(remotes,
                                   Remote(f, parseResult.uuid, parseResult.address,
                                          parseResult.port, TRUE))
                             /\ handlers' = [handlers EXCEPT
                                   ![f] = Handler("done", 0, TRUE, asked, "", <<>>)]
    /\ UNCHANGED <<upgrade, ui, peer, active, stream, parser, variant, kvBound, frames, errorSeen>>

\* data.arrayBuffer() of the forwarded frame f resolves: await writer.write(...)
V2ForwardDecoded(f) ==
    /\ variant = 2
    /\ f \in DOMAIN handlers
    /\ handlers[f].pc = "fwddecode"
    /\ handlers' = [handlers EXCEPT ![f].pc = "fwdwrite"]
    /\ remotes' = [remotes EXCEPT
          ![handlers[f].r].written = Append(@, [frame |-> f, part |-> "frame"])]
    /\ UNCHANGED <<upgrade, ui, peer, active, stream,
                   parser, variant, kvBound, frames, isHeaderParsed, remoteSocket, wsState,
                   closeCode, closeCalls, errorSeen>>

\* await writer.write(...) settles; writer.releaseLock() runs only if it resolved
V2WriteComplete(f, ok) ==
    /\ variant = 2
    /\ f \in DOMAIN handlers
    /\ handlers[f].pc \in {"initwrite", "fwdwrite"}
    /\ IF ok THEN
           /\ handlers' = [handlers EXCEPT ![f].pc = "done", ![f].r = 0]
           /\ remotes' = [remotes EXCEPT ![handlers[f].r].locked = FALSE]
           /\ UNCHANGED <<closeCode, closeCalls, wsState>>
       ELSE
           /\ handlers' = [handlers EXCEPT
                 ![f].pc = "done", ![f].r = 0,
                 ![f].outcome = IF handlers[f].pc = "initwrite" THEN "connect" ELSE "write"]
           /\ closeCode' = IF SafeCloseCalls(wsState) THEN <<InternalError>> ELSE closeCode
           /\ closeCalls' = closeCalls + (IF SafeCloseCalls(wsState) THEN 1 ELSE 0)
           /\ wsState' = IF SafeCloseCalls(wsState) THEN "CLOSING" ELSE wsState
           /\ UNCHANGED remotes
    /\ UNCHANGED <<upgrade, ui, peer, active, stream,
                   parser, variant, kvBound, frames, isHeaderParsed, remoteSocket, errorSeen>>

\* await reader.read() of remote r returns a chunk (remoteToWebSocket has the
\* loop body of pipeRemoteToWebSocket)
V2RemoteChunk(r) ==
    /\ variant = 2
    /\ r \in DOMAIN remotes
    /\ remotes[r].loop = "reading"
    /\ ~remotes[r].closed
    /\ remotes[r].got < MaxChunks
    /\ LET step == PipeStep(wsState)
           got == remotes[r].got + 1
       IN  /\ remotes' = [remotes EXCEPT
                 ![r].got = got,
                 ![r].sent = IF step.send THEN Append(@, got) ELSE @,
                 ![r].reads = IF step.again THEN @ + 1 ELSE @,
                 ![r].loop = IF step.again THEN "reading" ELSE "stopped"]
           /\ IF step.again THEN UNCHANGED <<closeCode, closeCalls, wsState>>
              ELSE \* finally: safeClose(ws)
                   /\ closeCode' = IF SafeCloseCalls(wsState) THEN <<NormalClose>>
                                   ELSE closeCode
                   /\ closeCalls' = closeCalls + (IF SafeCloseCalls(wsState) THEN 1 ELSE 0)
                   /\ wsState' = IF SafeCloseCalls(wsState) THEN "CLOSING" ELSE wsState
    /\ UNCHANGED <<upgrade, ui, peer, active, stream,
                   parser, variant, kvBound, frames, handlers, isHeaderParsed, remoteSocket,
                   errorSeen>>

\* await reader.read() of remote r reports the end of the stream or throws;
\* finally: safeClose(ws)
V2RemoteEnd(r, how) ==
    /\ variant = 2
    /\ r \in DOMAIN remotes
    /\ remotes[r].loop = "reading"
    /\ remotes' = [remotes EXCEPT ![r].loop = how]
    /\ closeCode' = IF SafeCloseCalls(wsState) THEN <<NormalClose>> ELSE closeCode
    /\ closeCalls' = closeCalls + (IF SafeCloseCalls(wsState) THEN 1 ELSE 0)
    /\ wsState' = IF SafeCloseCalls(wsState) THEN "CLOSING" ELSE wsState
    /\ UNCHANGED <<upgrade, ui, peer, active, stream,
                   parser, variant, kvBound, frames, handlers, isHeaderParsed, remoteSocket,
                   errorSeen>>

\* the close event of the client transport: if (remote) remote.close()
V2Close ==
    /\ variant = 2
    /\ wsState # "CLOSED"
    /\ wsState' = "CLOSED"
    /\ remotes' = [r \in DOMAIN remotes |->
                     IF r \in ClosedOnClose(remoteSocket)
                     THEN [remotes[r] EXCEPT !.closed = TRUE] ELSE remotes[r]]
    /\ UNCHANGED <<upgrade, ui, peer, active, stream,
                   parser, variant, kvBound, frames, handlers, isHeaderParsed, remoteSocket,
                   closeCode, closeCalls, errorSeen>>

\* the error event of the client transport: console.error only
V2Error ==
    /\ variant = 2
    /\ wsState # "CLOSED"
    /\ errorSeen' = TRUE
    /\ UNCHANGED <<upgrade, ui, peer, active, stream,
                   parser, variant, kvBound, frames, handlers, isHeaderParsed, remoteSocket,
                   remotes, wsState, closeCode, closeCalls>>

(***************************************************************************)
(* SpecV2: the session life cycle and the upload direction of the second   *)
(* variant, with the credential store bound.  The client sends up to       *)
(* MaxFrames frames out of V2FrameKinds (frames 4 and 6 are refused as     *)
(* frame 5 is).                                                            *)
(***************************************************************************)
V2FrameKinds == {1, 2, 3, 5}

NextV2 ==
    \/ \E b \in V2FrameKinds : V2Message(b)
    \/ \E f \in 1..MaxFrames, throws \in BOOLEAN : V2HeaderDecoded(f, throws)
    \/ \E f \in 1..MaxFrames : V2ForwardDecoded(f)
    \/ \E f \in 1..MaxFrames, ok \in BOOLEAN : V2WriteComplete(f, ok)
    \/ \E r \in 1..MaxFrames, how \in {"eof", "error"} : V2RemoteEnd(r, how)
    \/ V2Close
    \/ V2Error

SpecV2 == InitV2 /\ [][NextV2]_vars

(***************************************************************************)
(* SpecV2Down: the download direction of the second variant.  The client   *)
(* sends one frame; the remote socket sends up to MaxChunks chunks.        *)
(***************************************************************************)
V2FirstMessage(b) == Len(frames) = 0 /\ V2Message(b)

NextV2Down ==
    \/ \E b \in FrameKinds : V2FirstMessage(b)
    \/ \E throws \in BOOLEAN : V2HeaderDecoded(1, throws)
    \/ \E ok \in BOOLEAN : V2WriteComplete(1, ok)
    \/ V2RemoteChunk(1)
    \/ \E how \in {"eof", "error"} : V2RemoteEnd(1, how)
    \/ V2Close
    \/ V2Error

SpecV2Down == InitV2 /\ [][NextV2Down]_vars

(***************************************************************************)
(* Properties of the first variant.                                        *)
(***************************************************************************)
\* the key of each frame that holds the 16 bytes of an id, from its bytes
FrameKey ==
    [b \in {k \in FrameKinds : Len(FrameBufs[k]) >= 17} |->
        bytesToUUID(SubSeq(FrameBufs[b], 2, 17))]

\* the frame of handler f holds the 16 bytes of an id
HasId(f) == frames[f] \in DOMAIN FrameKey

\* the key of the frame of handler f
KeyOf(f) == FrameKey[frames[f]]

\* the writes issued on all remote sockets
Writes == UNION {{[r |-> r, i |-> i] : i \in DOMAIN remotes[r].written} : r \in DOMAIN remotes}

WriteAt(w) == remotes[w.r].written[w.i]

\* write v was issued before write w
Before(v, w) == v.r < w.r \/ (v.r = w.r /\ v.i < w.i)

\* C1: every connect() call of a session follows a credential-store lookup, by
\* the same handler, that found the id of the header it connects; a frame
\* whose id is absent from the store causes no connect() and no write.
C1_ConnectOnlyForFoundId ==
    /\ \A r \in DOMAIN remotes :
          /\ handlers[remotes[r].frame].found = "yes"
          /\ HasId(remotes[r].frame)
          /\ KeyOf(remotes[r].frame) \in Store
          /\ remotes[r].key = KeyOf(remotes[r].frame)
    /\ \A f \in DOMAIN handlers :
          (handlers[f].parsed /\ HasId(f) /\ KeyOf(f) \notin Store) =>
              /\ \A r \in DOMAIN remotes : remotes[r].frame # f
              /\ \A w \in Writes : WriteAt(w).frame # f

\* a frame with an unknown id was refused after its lookup, and a frame with a
\* known id was connected and its initial payload written, in one session
C1_Witness ==
    /\ \E f \in DOMAIN handlers : handlers[f].found = "no" /\ handlers[f].pc = "done"
    /\ \E r \in DOMAIN remotes : remotes[r].opened /\ Len(remotes[r].written) > 0

\* the frames of handler invocations that took the forwarding branch with a
\* remote socket in place
Forwarded == {f \in DOMAIN handlers : ~handlers[f].parsed /\ handlers[f].outcome # "ignored"}

\* C3: every frame delivered after the header was accepted is written to the
\* remote connection exactly once, in arrival order, also when it arrives
\* while the previous write is pending.
C3_EveryFrameWrittenOnce ==
    /\ \A f \in Forwarded :
          Cardinality({w \in Writes : WriteAt(w).frame = f}) = 1
    /\ \A v, w \in Writes :
          (v.r = w.r /\ v.i < w.i) => WriteAt(v).frame < WriteAt(w).frame

\* the first frame is a header the code accepts, with an initial payload
FirstFrameCarriesPayload ==
    /\ Len(frames) > 0
    /\ FrameParse[frames[1]].before.awaits
    /\ FrameParse[frames[1]].key \in Store
    /\ FrameParse[frames[1]].after[TRUE].isValid
    /\ Len(FrameParse[frames[1]].after[TRUE].remainingData) > 0

\* C5: the initial payload of the header frame is written before any byte of
\* any later client frame.
C5_InitialPayloadFirst ==
    FirstFrameCarriesPayload =>
        \A w \in Writes :
            WriteAt(w).frame # 1 =>
                \E v \in Writes : WriteAt(v) = [frame |-> 1, part |-> "initial"] /\ Before(v, w)

\* the client transport is closed and no message handler or copy loop runs
Finished ==
    /\ wsState = "CLOSED"
    /\ \A f \in DOMAIN handlers : handlers[f].pc = "done"
    /\ \A r \in DOMAIN remotes : remotes[r].loop # "reading"

\* C6: when a session is finished, every remote connection it opened is closed.
C6_FinishedSessionHoldsNoSocket ==
    Finished => \A r \in DOMAIN remotes : remotes[r].opened => remotes[r].closed

\* C7: once the close event of the client transport was delivered, the session
\* invokes no connect() and issues no write to a remote connection.
C7_NothingAfterClose ==
    [][wsState = "CLOSED" =>
          /\ Len(remotes') = Len(remotes)
          /\ \A r \in DOMAIN remotes : remotes'[r].written = remotes[r].written]_vars

\* C8: a session invokes connect() at most once.
C8_AtMostOneConnect == Len(remotes) <= 1

\* C9: only the first frame of a session is passed to parseVLESSHeader.
C9_OnlyFirstFrameParsed == \A f \in DOMAIN handlers : handlers[f].parsed => f = 1

\* the frames whose handler refused the header, or whose connect() or initial
\* write failed
FailedFrames == {f \in DOMAIN handlers : handlers[f].outcome \in {"header", "connect"}}

\* what the frames after frame f have caused: header parses, connect() calls
\* and writes
CausedAfter(f) ==
    <<{g \in DOMAIN handlers : g > f /\ handlers[g].parsed},
      {r \in DOMAIN remotes : remotes[r].frame > f},
      {w \in Writes : WriteAt(w).frame > f}>>

\* C10: after a session has failed, no later client frame is parsed as a
\* header, causes a connect() or is written to a remote connection.
C10_FailureIsAbsorbing ==
    [][\A f \in FailedFrames : CausedAfter(f)' = CausedAfter(f)]_vars

\* C4 as stated: the frames sent are exactly the chunks read, in read order,
\* and a read is issued only after the previous chunk was sent.
C4_SentEqualsRead ==
    \A r \in DOMAIN remotes :
        /\ remotes[r].sent = [k \in 1..remotes[r].got |-> k]
        /\ remotes[r].reads <= Len(remotes[r].sent) + 1

\* C4, amended: the frames sent are the chunks read, in read order, one frame
\* per chunk, except that a chunk read when the transport is not open is
\* discarded and ends the loop; a read is issued only after the previous
\* chunk was sent.
C4_SentIsReadUpToStop ==
    \A r \in DOMAIN remotes :
        LET n == Len(remotes[r].sent)
        IN  /\ remotes[r].sent = [k \in 1..n |-> k]
            /\ \/ n = remotes[r].got
               \/ n + 1 = remotes[r].got /\ remotes[r].loop = "stopped"
            /\ remotes[r].reads <= n + 1

\* a chunk was sent, and a later chunk was read with the transport not open
C4_Witness ==
    \E r \in DOMAIN remotes :
        /\ Len(remotes[r].sent) >= 1
        /\ remotes[r].got = Len(remotes[r].sent) + 1
        /\ remotes[r].loop = "stopped"


(***************************************************************************)
(* Properties of the second variant.                                       *)
(***************************************************************************)
\* the first frame was parsed as a header that reached the check of its id,
\* and the store holds no record of that id
FirstFrameIdUnknown ==
    /\ Len(handlers) > 0
    /\ handlers[1].parsed
    /\ Len(FrameBufs[frames[1]]) >= MinHeaderLen
    /\ FrameBufs[frames[1]][1] = 0
    /\ KeyOf(1) \notin Store

\* C2: with a credential store bound, a first frame whose id is absent from the
\* store is rejected with 'Unauthorized UUID', the client transport is closed
\* with code 1008, and connect() is not invoked.
C2_UnknownIdRefusedV2 ==
    (kvBound /\ FirstFrameIdUnknown) =>
        /\ handlers[1].error = <<"Unauthorized UUID">>
        /\ closeCode = <<PolicyViolation>>
        /\ \A r \in DOMAIN remotes : remotes[r].frame # 1

(***************************************************************************)
(* SpecDown: the download direction of the first and of the second         *)
(* variant.  A session runs one variant; the client sends one frame and    *)
(* the remote socket sends up to MaxChunks chunks.                         *)
(***************************************************************************)
InitDown == InitV1 \/ InitV2

NextDown == NextV1Down \/ NextV2Down

SpecDown == InitDown /\ [][NextDown]_vars

(***************************************************************************)
(* Termination of the two relay directions.                                *)
(***************************************************************************)
\* the close codes of a close that reports no error: close() without a code,
\* and safeClose's default code
NormalCloseCodes == {<<NoCode>>, <<NormalClose>>}

\* C11: when the remote connection signals the end of its stream while the
\* session is relaying, the copy loop closes the client transport with a normal
\* close (no error code), and no frame is sent to the client after that close.
C11_EndOfStreamClosesNormally ==
    [][/\ \A r \in DOMAIN remotes :
            (remotes[r].loop = "reading" /\ remotes'[r].loop = "eof" /\ wsState = "OPEN") =>
                /\ wsState' = "CLOSING"
                /\ closeCalls' = closeCalls + 1
                /\ closeCode' \in NormalCloseCodes
       /\ (\E r \in DOMAIN remotes : remotes[r].loop = "eof") =>
              \A q \in DOMAIN remotes : remotes'[q].sent = remotes[q].sent]_vars

\* the remote stream ended after a chunk was relayed, and the end closed the
\* open client transport
C11_Witness ==
    \E r \in DOMAIN remotes :
        /\ remotes[r].loop = "eof"
        /\ Len(remotes[r].sent) >= 1
        /\ wsState = "CLOSING"
        /\ closeCalls = 1
        /\ closeCode \in NormalCloseCodes

\* C12: in the first variant, when the close event of the client transport is
\* delivered while the session holds a remote connection, close() is called on
\* that connection: after the close handler has run it is closed.
C12_CloseEventClosesRemote ==
    [][(variant = 1 /\ wsState # "CLOSED" /\ wsState' = "CLOSED" /\ remoteSocket # 0) =>
          remotes'[remoteSocket].closed]_vars

\* the close event was delivered to a session holding an opened remote
\* connection that had taken a write, and the connection is closed
C12_Witness ==
    /\ variant = 1
    /\ wsState = "CLOSED"
    /\ remoteSocket # 0
    /\ remotes[remoteSocket].opened
    /\ Len(remotes[remoteSocket].written) > 0
    /\ remotes[remoteSocket].closed

\* C13: when the error event of the client transport is delivered while the
\* session is relaying, the remote connection is closed and the session
\* terminates: afterwards no frame is forwarded in either direction.
C13_ErrorEventEndsSession ==
    [][/\ (~errorSeen /\ errorSeen' /\ wsState = "OPEN" /\ remoteSocket # 0) =>
              remotes'[remoteSocket].closed
       /\ errorSeen =>
              \A r \in DOMAIN remotes :
                  r \in DOMAIN remotes' /\ remotes'[r].sent = remotes[r].sent
                                        /\ remotes'[r].written = remotes[r].written]_vars

\* C14: when a read of the remote connection fails while the session is
\* relaying, the client transport is closed with close code 1011, not with a
\* normal close.
C14_ReadErrorClosesWith1011 ==
    [][\A r \in DOMAIN remotes :
          (remotes[r].loop = "reading" /\ remotes'[r].loop = "error" /\ wsState = "OPEN") =>
              /\ wsState' = "CLOSING"
              /\ closeCode' = <<InternalError>>]_vars

(***************************************************************************)
(* Failures of the handshake.                                              *)
(***************************************************************************)
\* the frames that fail header parsing or name an id without a record, from
\* their bytes: short, version not 0, id not in the store, command not 1,
\* address type not 1, 2 or 3
RefusableFrames ==
    {b \in FrameKinds :
        LET buf == FrameBufs[b]
        IN  \/ Len(buf) < MinHeaderLen
            \/ buf[1] # 0
            \/ FrameKey[b] \notin Store
            \/ At(buf, 18 + buf[18]) # 1
            \/ At(buf, 18 + buf[18] + 3) \notin {1, 2, 3}}

\* the handler of the first frame is past the parse of the header
FirstFrameParsed ==
    /\ Len(handlers) >= 1
    /\ handlers[1].pc \notin {"lookup", "decode"}

\* the client closed the transport before the session called close()
ClosedByClient == wsState = "CLOSED" /\ closeCode = <<>>

\* C16: when the first frame fails header parsing (short buffer, version not 0,
\* command not 1, invalid address type) or names an id that is not in the
\* store, the client transport is closed with close code 1008.
C16_RefusedFrameCloses1008 ==
    (FirstFrameParsed /\ frames[1] \in RefusableFrames /\ ~ClosedByClient) =>
        closeCode = <<PolicyViolation>>

\* the writes caused by the frames after frame f
WritesAfter(f) == {w \in Writes : WriteAt(w).frame > f}

\* C17: in the first variant, when connect() throws or the write of the initial
\* payload fails, the client transport is closed with close code 1011 and no
\* later client frame is forwarded.
C17_ConnectFailureCloses1011 ==
    [][\A f \in DOMAIN handlers :
          /\ (handlers[f].outcome # "connect" /\ handlers'[f].outcome = "connect"
                 /\ wsState = "OPEN") =>
                 (wsState' = "CLOSING" /\ closeCode' = <<InternalError>>)
          /\ handlers[f].outcome = "connect" => WritesAfter(f)' = WritesAfter(f)]_vars

(***************************************************************************)
(* SpecV1Relay: a relaying session of the first variant.  The client sends *)
(* up to MaxRelayFrames frames: headers of known ids and data.             *)
(***************************************************************************)
RelayFrameKinds == {1, 2, 5}

V1RelayMessage(b) == V1Deliver(b, MaxRelayFrames)

NextV1Relay ==
    \/ \E b \in RelayFrameKinds : V1RelayMessage(b)
    \/ \E f \in 1..MaxRelayFrames, throws \in BOOLEAN : V1LookupComplete(f, throws)
    \/ \E f \in 1..MaxRelayFrames, ok \in BOOLEAN : V1WriteComplete(f, ok)
    \/ \E r \in 1..MaxRelayFrames, how \in {"eof", "error"} : V1RemoteEnd(r, how)
    \/ V1Close

SpecV1Relay == InitV1 /\ [][NextV1Relay]_vars

\* the remote connections on which the write of a forwarded client frame failed
FailedWriteRemotes ==
    {r \in DOMAIN remotes :
        \E i \in DOMAIN remotes[r].written :
            /\ remotes[r].written[i].part = "frame"
            /\ handlers[remotes[r].written[i].frame].outcome = "write"}

\* C15: in the first variant, when the write of a client frame to the remote
\* connection fails, the client transport is closed with code 1011, and once
\* the close handler has run the remote connection is closed: neither
\* direction stays open.
C15_WriteFailureClosesBoth ==
    [][/\ \A f \in DOMAIN handlers :
             (handlers[f].pc = "fwdwrite" /\ handlers'[f].outcome = "write"
                 /\ wsState = "OPEN") =>
                 (wsState' = "CLOSING" /\ closeCode' = <<InternalError>>)
       /\ wsState' = "CLOSED" => \A r \in FailedWriteRemotes' : remotes'[r].closed]_vars

(***************************************************************************)
(* SpecParser: one call of parseVLESSHeader on its own, on a buffer out of *)
(* ParserBufs, by the first variant (two steps: up to the await of the     *)
(* store, and from its answer on) or by the second (one step).  The call   *)
(* records the indices of the buffer it reads and the keys it looks up.    *)
(***************************************************************************)
\* the bytes after the id: addon length, addons, command, port, address type,
\* address, payload
ParserTails ==
    { <<0, 1, 0, 80, 1, 10, 0, 0, 5>>,                 \* IPv4, complete
      <<0, 1, 0, 80, 1, 10, 0, 0, 5, 71, 69, 84>>,     \* IPv4 and a payload
      <<0, 1, 0, 80, 1, 10, 0>>,                       \* IPv4, two bytes missing
      <<0, 1, 1, 187, 2, 3, 97, 98, 99>>,              \* domain "abc", complete
      <<0, 1, 1, 187, 2, 200, 97>>,                    \* domain of 200 bytes, one present
      <<3, 7, 7, 7, 1, 0, 80, 2>>,                     \* domain, length byte missing
      <<0, 1, 0, 80, 3, 32, 1, 13, 184, 0, 0, 0, 0, 0, 0, 0, 0, 0, 0, 0, 1>>,  \* IPv6, complete
      <<0, 1, 0, 80, 3, 32, 1>>,                       \* IPv6, 14 bytes missing
      <<0, 1, 0, 80, 4, 10, 0, 0, 5>>,                 \* address type 4
      <<0, 2, 0, 53, 1, 10, 0, 0, 5>>,                 \* command 2
      <<2, 7, 7, 1, 0, 80, 1, 10, 0, 0, 5>>,           \* two addon bytes, IPv4, complete
      <<9, 1, 0, 80, 1, 10, 0>>,                       \* nine addon bytes declared, none present
      <<6, 1, 0, 80, 1, 10, 0>>,                       \* six addon bytes declared: command past the end
      <<2, 7, 7, 2, 0, 53, 1, 10, 0, 0, 5>>,           \* two addon bytes, command 2
      <<0, 3, 0, 80, 4, 10, 0, 0, 5>>,                 \* command 3 and address type 4
      <<0, 1, 0, 80, 0, 10, 0, 0, 5>>,                 \* address type 0
      <<1, 7, 1, 0, 80, 1>>,                           \* one addon byte, address type past the end
      <<0, 2, 0, 53, 1, 10, 0>> }                      \* command 2, IPv4 with two bytes missing

\* a complete header, cut short
ParserShortBufs ==
    {SubSeq(<<v>> \o KnownId \o <<0, 1, 0, 80, 1, 10, 0, 0, 5>>, 1, n) :
        v \in {0, 1}, n \in {0, 1, 2, 17, 23}}

\* the fields of well-formed headers, each with the text of its address:
\* 10.0.0.5, example.com and 2001:db8:0:0:0:0:0:1
WellFormedAddresses ==
    { [addressType |-> 1, addr |-> <<10, 0, 0, 5>>,
       text |-> <<49, 48, 46, 48, 46, 48, 46, 53>>],
      [addressType |-> 2, addr |-> <<11>> \o DomainBytes, text |-> DomainBytes],
      [addressType |-> 3, addr |-> <<32, 1, 13, 184, 0, 0, 0, 0, 0, 0, 0, 0, 0, 0, 0, 1>>,
       text |-> <<50, 48, 48, 49, 58, 100, 98, 56, 58, 48, 58, 48, 58, 48, 58, 48, 58, 48,
                  58, 49>>] }

WellFormedHeaders ==
    {[addons |-> a, port |-> p, address |-> ad, payload |-> pl] :
        a \in {<<>>, <<7, 7>>}, p \in {80, 256, 65535}, ad \in WellFormedAddresses,
        pl \in {<<>>, PayloadBytes}}

\* the bytes of a well-formed header of a known id
EncodeHeader(w) ==
    Header(0, KnownId, w.addons, 1, w.port, w.address.addressType, w.address.addr, w.payload)

ParserBufs ==
    {<<v>> \o id \o t : v \in {0, 1}, id \in {KnownId, UnknownId}, t \in ParserTails}
        \cup ParserShortBufs
        \cup {EncodeHeader(w) : w \in WellFormedHeaders}

\* the indices vlessBuffer.slice(from, to) copies
SliceIndices(buf, from, to) == {i \in Min(from, Len(buf))..(Min(to, Len(buf)) - 1) : TRUE}

\* the indices read to take the address at offset off; byIndex: the IPv6 bytes
\* are read one by one (second variant) and not by slice (first variant)
ReadsOfAddress(buf, addressType, off, byIndex) ==
    IF addressType = 1 THEN off..(off + 3)
    ELSE IF addressType = 2 THEN
        {off} \cup (IF At(buf, off) = Undef THEN {}
                    ELSE SliceIndices(buf, off + 1, off + 1 + At(buf, off)))
    ELSE IF addressType = 3 THEN
        (IF byIndex THEN off..(off + 15) ELSE SliceIndices(buf, off, off + 16))
    ELSE {}

\* the indices read from the addon length on
ReadsOfFields(buf, byIndex) ==
    LET cmdOff == 18 + At(buf, 17)
        addressType == At(buf, cmdOff + 3)
        addr == ParseAddress(buf, addressType, cmdOff + 4)
    IN  {17, cmdOff} \cup
        (IF At(buf, cmdOff) # 1 THEN {}
         ELSE {cmdOff + 1, cmdOff + 2, cmdOff + 3}
                \cup ReadsOfAddress(buf, addressType, cmdOff + 4, byIndex)
                \cup (IF addr.ok THEN SliceIndices(buf, addr.next, Len(buf)) ELSE {}))

\* the indices read up to the await of the store (or up to the early return)
ReadsBeforeLookup(buf) ==
    IF ~ParseBeforeLookup(buf).awaits
    THEN (IF Len(buf) < MinHeaderLen THEN {} ELSE {0})
    ELSE {0} \cup SliceIndices(buf, 1, 17)

\* the indices read after the store has answered
ReadsAfterLookup(buf, found) == IF ~found THEN {} ELSE ReadsOfFields(buf, FALSE)

\* the indices the second variant's parseVLESSHeader reads
ReadsV2(buf, bound) ==
    IF Len(buf) < MinHeaderLen THEN {}
    ELSE IF At(buf, 0) # 0 THEN {0}
    ELSE {0} \cup SliceIndices(buf, 1, 17)
            \cup (IF Not(IsValidValue(bound, TRUE)) THEN {} ELSE ReadsOfFields(buf, TRUE))

\* a call of parseVLESSHeader(buf, env) about to run
ParserCall(buf) ==
    [pc |-> "called", buf |-> buf, reads |-> {}, lookups |-> <<>>,
     accepted |-> FALSE, error |-> <<>>, address |-> <<>>, port |-> 0,
     remainingData |-> <<>>]

InitParser ==
    /\ SessionInit
    /\ Alone
    /\ variant \in {1, 2}
    /\ kvBound = TRUE
    /\ parser \in {ParserCall(buf) : buf \in ParserBufs}

\* first variant: the call runs up to `await env.VLESS_ACCOUNTS.get(uuid)`, or
\* returns before it
ParseStart ==
    /\ variant = 1
    /\ parser.pc = "called"
    /\ LET before == ParseBeforeLookup(parser.buf)
       IN  parser' = [parser EXCEPT
               !.pc = IF before.awaits THEN "lookup" ELSE "returned",
               !.reads = ReadsBeforeLookup(parser.buf),
               !.lookups = IF before.awaits THEN <<LookupKey(parser.buf)>> ELSE <<>>,
               !.error = IF before.awaits THEN <<>> ELSE before.result.error]
    /\ UNCHANGED <<upgrade, ui, peer, active, stream,
                   variant, kvBound, frames, handlers, isHeaderParsed, remoteSocket, remotes,
                   wsState, closeCode, closeCalls, errorSeen>>

\* first variant: the store answers and the call returns
ParseResume ==
    /\ variant = 1
    /\ parser.pc = "lookup"
    /\ LET found == parser.lookups[1] \in Store
           result == ParseAfterLookup(parser.buf, found)
       IN  parser' = [parser EXCEPT
               !.pc = "returned",
               !.reads = @ \cup ReadsAfterLookup(parser.buf, found),
               !.accepted = result.isValid,
               !.error = result.error,
               !.address = IF result.isValid THEN result.address ELSE <<>>,
               !.port = IF result.isValid THEN result.port ELSE 0,
               !.remainingData = IF result.isValid THEN result.remainingData ELSE <<>>]
    /\ UNCHANGED <<upgrade, ui, peer, active, stream,
                   variant, kvBound, frames, handlers, isHeaderParsed, remoteSocket, remotes,
                   wsState, closeCode, closeCalls, errorSeen>>

\* second variant: the call runs to its return; validateUUID starts a lookup
ParseV2 ==
    /\ variant = 2
    /\ parser.pc = "called"
    /\ LET buf == parser.buf
           asks == kvBound /\ Len(buf) >= MinHeaderLen /\ At(buf, 0) = 0
           result == parseVLESSHeaderV2(buf, kvBound, asks /\ LookupKey(buf) \in Store)
       IN  parser' = [parser EXCEPT
               !.pc = "returned",
               !.reads = ReadsV2(buf, kvBound),
               !.lookups = IF asks THEN <<LookupKey(buf)>> ELSE <<>>,
               !.accepted = result.valid,
               !.error = result.error,
               !.address = IF result.valid THEN result.address ELSE <<>>,
               !.port = IF result.valid THEN result.port ELSE 0,
               !.remainingData = IF result.valid THEN result.payload ELSE <<>>]
    /\ UNCHANGED <<upgrade, ui, peer, active, stream,
                   variant, kvBound, frames, handlers, isHeaderParsed, remoteSocket, remotes,
                   wsState, closeCode, closeCalls, errorSeen>>

NextParser == ParseStart \/ ParseResume \/ ParseV2

SpecParser == InitParser /\ [][NextParser]_vars

(***************************************************************************)
(* Properties of parseVLESSHeader.                                         *)
(***************************************************************************)
\* the header format laid over the buffer: the addon bytes, the command, the
\* port, the address type and the complete address lie inside the buffer
FieldsInside(buf) ==
    LET n == Len(buf)
        cmdOff == 18 + buf[18]
        off == cmdOff + 4
    IN  /\ cmdOff + 3 < n
        /\ \/ buf[cmdOff + 4] = 1 /\ off + 4 <= n
           \/ buf[cmdOff + 4] = 2 /\ off < n /\ off + 1 + buf[off + 1] <= n
           \/ buf[cmdOff + 4] = 3 /\ off + 16 <= n

\* the call has returned for a buffer of at least 24 bytes with version 0 and
\* an id that has a record in the store
ReturnedForKnownId ==
    /\ parser.pc = "returned"
    /\ Len(parser.buf) >= MinHeaderLen
    /\ parser.buf[1] = 0
    /\ SubSeq(parser.buf, 2, 17) = KnownId

\* C18: for a buffer of at least 24 bytes with version 0 and a known id,
\* parseVLESSHeader returns a valid header only if the addon bytes, the command,
\* the port, the address type and the complete address lie inside the buffer,
\* and it reads no index at or beyond the length of the buffer.
C18_AcceptedOnlyInsideBuffer ==
    ReturnedForKnownId =>
        /\ parser.accepted => FieldsInside(parser.buf)
        /\ parser.reads \subseteq 0..(Len(parser.buf) - 1)

\* C19: on a buffer shorter than 24 bytes parseVLESSHeader returns the 'Buffer
\* too short' error without reading a byte of the buffer and without
\* consulting the credential store.
C19_ShortBufferRefusedUnread ==
    (parser.pc # "idle" /\ Len(parser.buf) < MinHeaderLen) =>
        /\ parser.pc \in {"called", "returned"}
        /\ parser.reads = {}
        /\ parser.lookups = <<>>
        /\ parser.pc = "returned" =>
               (~parser.accepted /\ parser.error = <<"Buffer too short">>)

\* the call has returned for a buffer of 1 to 23 bytes whose version byte is 0
C19_Witness ==
    /\ parser.pc = "returned"
    /\ Len(parser.buf) \in 1..(MinHeaderLen - 1)
    /\ parser.buf[1] = 0
    /\ parser.error = <<"Buffer too short">>

\* C20: parseVLESSHeader rejects every buffer whose version byte is not 0,
\* whatever the other bytes and the store hold, and stops there: it performs
\* no credential lookup and interprets no later field.
C20_WrongVersionRefusedAtOnce ==
    (parser.pc # "idle" /\ Len(parser.buf) >= 1 /\ parser.buf[1] # 0) =>
        /\ parser.pc \in {"called", "returned"}
        /\ parser.lookups = <<>>
        /\ parser.reads \subseteq {0}
        /\ parser.pc = "returned" =>
               /\ ~parser.accepted
               /\ parser.address = <<>>
               /\ (variant = 1 /\ Len(parser.buf) >= MinHeaderLen) =>
                      parser.error = <<"Invalid VLESS version">>

\* the first variant's call has returned for a buffer of at least 24 bytes
\* whose version byte is 1 and whose id has a record in the store
C20_Witness ==
    /\ variant = 1
    /\ parser.pc = "returned"
    /\ Len(parser.buf) >= MinHeaderLen
    /\ parser.buf[1] = 1
    /\ SubSeq(parser.buf, 2, 17) = KnownId
    /\ parser.error = <<"Invalid VLESS version">>

(***************************************************************************)
(* SpecHeader: a call of parseVLESSHeader on its own, or a session of one  *)
(* frame of either variant.                                                *)
(***************************************************************************)
InitHeader == InitParser \/ InitDown

\* a parser call runs on its own; a session runs when no such call is observed
NextHeader == NextParser \/ (parser = ParserIdle /\ NextDown)

SpecHeader == InitHeader /\ [][NextHeader]_vars

\* the command byte of a buffer: the byte after the addons (Undef past the end)
CommandByte(buf) == At(buf, 18 + buf[18])

\* the address-type byte of a buffer (Undef past the end)
AddressTypeByte(buf) == At(buf, 18 + buf[18] + 3)

\* the call has returned for a buffer of at least 24 bytes with version 0
ReturnedForVersion0 ==
    /\ parser.pc = "returned"
    /\ Len(parser.buf) >= MinHeaderLen
    /\ parser.buf[1] = 0

\* C21: parseVLESSHeader rejects every header whose command byte (the byte
\* after the skipped addons) is not 1, for every addon length, and such a
\* frame never leads to a connect() call.
C21_OtherCommandRefused ==
    /\ (ReturnedForVersion0 /\ CommandByte(parser.buf) # 1) =>
           /\ ~parser.accepted
           /\ parser.address = <<>>
           /\ (variant = 1 /\ parser.lookups[1] \in Store) =>
                  parser.error = <<"Only TCP is supported">>
    /\ \A r \in DOMAIN remotes : CommandByte(FrameBufs[frames[remotes[r].frame]]) = 1

\* the first variant's call has returned for a known id, two addon bytes and
\* command 2
C21_Witness ==
    /\ variant = 1
    /\ ReturnedForVersion0
    /\ parser.lookups[1] \in Store
    /\ parser.buf[18] = 2
    /\ CommandByte(parser.buf) = 2
    /\ parser.error = <<"Only TCP is supported">>

\* C22: parseVLESSHeader accepts exactly the address types 1, 2 and 3; for any
\* other address-type byte it returns the 'Invalid address type' error and
\* produces no header.
C22_ExactlyThreeAddressTypes ==
    (ReturnedForVersion0 /\ parser.lookups[1] \in Store /\ CommandByte(parser.buf) = 1) =>
        /\ parser.accepted <=> AddressTypeByte(parser.buf) \in {1, 2, 3}
        /\ ~parser.accepted =>
               /\ parser.address = <<>>
               /\ parser.remainingData = <<>>
               /\ variant = 1 => parser.error = <<"Invalid address type">>

\* the first variant's call has returned 'Invalid address type' for a known
\* id, command 1 and address type 4
C22_Witness ==
    /\ variant = 1
    /\ ReturnedForVersion0
    /\ parser.lookups[1] \in Store
    /\ CommandByte(parser.buf) = 1
    /\ AddressTypeByte(parser.buf) = 4
    /\ parser.error = <<"Invalid address type">>

\* C23: for every well-formed header (version 0, known id, any addon length,
\* command 1, address type 1, 2 or 3, any payload) parseVLESSHeader returns a
\* valid result whose port is the big-endian value of the two port bytes, whose
\* address is decoded from exactly the address bytes and whose remainingData
\* is exactly the bytes after the address.
C23_WellFormedHeaderDecoded ==
    \A w \in WellFormedHeaders :
        (parser.pc = "returned" /\ parser.buf = EncodeHeader(w)) =>
            /\ parser.accepted
            /\ parser.port = w.port
            /\ parser.address = w.address.text
            /\ parser.remainingData = w.payload

\* the call has returned for the header of 2001:db8:0:0:0:0:0:1 port 65535 with
\* two addon bytes and a payload
C23_Witness ==
    /\ parser.pc = "returned"
    /\ parser.accepted
    /\ parser.buf[18] = 2
    /\ parser.port = 65535
    /\ Len(parser.address) = 20
    /\ parser.remainingData = PayloadBytes

\* C29: the credential store is consulted only for a first frame that parses as
\* a complete header: a frame with an unsupported command, an invalid address
\* type or a truncated header causes no lookup and is reported as a protocol
\* error, not as an unknown id.
C29_LookupOnlyAfterParse ==
    (ReturnedForVersion0
        /\ (CommandByte(parser.buf) # 1 \/ AddressTypeByte(parser.buf) \notin {1, 2, 3}
               \/ ~FieldsInside(parser.buf))) =>
        /\ parser.lookups = <<>>
        /\ parser.error \notin {<<"Invalid UUID">>, <<"Unauthorized UUID">>}
        /\ ~parser.accepted

\* the frames whose writer.write() on a remote connection has not completed
AwaitingWrite == {f \in DOMAIN handlers : handlers[f].pc \in {"initwrite", "fwdwrite"}}

\* the chunks a copy loop holds between two turns: webSocket.send() is called
\* in the turn in which reader.read() returns the chunk
AwaitingSend(r) == 0

\* C24: in the first variant, at every moment of a relaying session at most
\* one client frame awaits the completion of its write to the remote
\* connection and at most one remote chunk awaits its send to the client.
C24_OneInFlightPerDirection ==
    (variant = 1 /\ isHeaderParsed) =>
        /\ Cardinality(AwaitingWrite) <= 1
        /\ \A r \in DOMAIN remotes : AwaitingSend(r) <= 1

(***************************************************************************)
(* SpecPair: two sessions of the first variant in one worker.  Each upgrade *)
(* request calls handleVLESSConnection (part_000:231), whose state is its  *)
(* parameter webSocket and the variables declared at part_000:246-249.     *)
(* The session variables describe one session and `peer` holds the other;  *)
(* Switch turns to the other session, so the steps of the two interleave.  *)
(* Switch applies only to SpecPair: everywhere else peer is NoPeer.         *)
(***************************************************************************)
MaxPairFrames == 2

\* header of a known id with a payload, and a short frame
PairFrameKinds == {1, 5}

\* the state of the session the session variables describe
Session ==
    [frames |-> frames, handlers |-> handlers, isHeaderParsed |-> isHeaderParsed,
     remoteSocket |-> remoteSocket, remotes |-> remotes, wsState |-> wsState,
     closeCode |-> closeCode, closeCalls |-> closeCalls, errorSeen |-> errorSeen]

\* as SharedAcrossSessions, with isHeaderParsed declared at module level
SharedAcrossSessionsFlag == {"isHeaderParsed"}

\* the mutable variables of the session code that are declared outside
\* handleVLESSConnection, and so are one variable for every session
SharedAcrossSessions == {}

\* the value the other session sees for the variable `name`
SeenByOther(name, mine, theirs) == IF name \in SharedAcrossSessions THEN mine ELSE theirs

InitPair ==
    /\ SessionInit
    /\ variant = 1
    /\ kvBound = TRUE
    /\ parser = ParserIdle
    /\ stream = StreamIdle
    /\ active = 1
    /\ ui = UiIdle
    /\ upgrade = UpgradeIdle
    /\ peer = Session

\* the event loop turns to the other session
Switch ==
    /\ peer # NoPeer
    /\ active' = 3 - active
    /\ peer' = Session
    /\ frames' = peer.frames
    /\ handlers' = peer.handlers
    /\ isHeaderParsed' = SeenByOther("isHeaderParsed", isHeaderParsed, peer.isHeaderParsed)
    /\ remoteSocket' = SeenByOther("remoteSocket", remoteSocket, peer.remoteSocket)
    /\ remotes' = peer.remotes
    /\ wsState' = peer.wsState
    /\ closeCode' = peer.closeCode
    /\ closeCalls' = peer.closeCalls
    /\ errorSeen' = peer.errorSeen
    /\ UNCHANGED <<variant, kvBound, parser, stream, ui, upgrade>>

\* a frame for the session in turn: the first session gets one frame of
\* either kind, the second a header and then short frames, up to MaxPairFrames
V1PairMessage(b) ==
    /\ active = 2 => b = (IF frames = <<>> THEN 1 ELSE 5)
    /\ V1Deliver(b, IF active = 1 THEN 1 ELSE MaxPairFrames)

NextPair ==
    \/ \E b \in PairFrameKinds : V1PairMessage(b)
    \/ \E f \in 1..MaxPairFrames, throws \in BOOLEAN : V1LookupComplete(f, throws)
    \/ \E f \in 1..MaxPairFrames, ok \in BOOLEAN : V1WriteComplete(f, ok)
    \/ \E r \in 1..MaxPairFrames, how \in {"eof", "error"} : V1RemoteEnd(r, how)
    \/ V1Close
    \/ V1Error
    \/ Switch

SpecPair == InitPair /\ [][NextPair]_vars

\* what the other session holds: its header-parsed flag, its remote
\* connection and its client transport
OtherSession ==
    [isHeaderParsed |-> SeenByOther("isHeaderParsed", isHeaderParsed, peer.isHeaderParsed),
     remoteSocket |-> SeenByOther("remoteSocket", remoteSocket, peer.remoteSocket),
     remotes |-> peer.remotes,
     wsState |-> peer.wsState,
     closeCode |-> peer.closeCode,
     handlers |-> peer.handlers]

\* C25: two concurrent sessions share no mutable state: every event of one
\* session (a frame, a client close, a client error, a remote end, a failure)
\* leaves the other session's header-parsed flag, remote connection and client
\* transport unchanged, and the other session's relay goes on forwarding.
C25_SessionsDoNotInterfere ==
    [][active' = active => OtherSession' = OtherSession]_vars

\* one session was refused with 1008 while the other, with its header parsed
\* and its transport open, is writing a forwarded frame to its own remote
C25_Witness ==
    /\ peer # NoPeer
    /\ peer.closeCode = <<PolicyViolation>>
    /\ isHeaderParsed
    /\ wsState = "OPEN"
    /\ \E f \in DOMAIN handlers : handlers[f].pc = "fwdwrite"

(***************************************************************************)
(* SpecStream: the stream of makeReadableWebSocketStream (third variant,   *)
(* part_000:1956-1984) on its own, with the events of its transport and a  *)
(* consumer that pipes it to a remote connection's writable (1933).        *)
(***************************************************************************)
MaxStreamFrames == 4

\* the highWaterMark of new ReadableStream(source) built without a strategy
HighWaterMark == 1

StreamFrameKinds == {1, 5}

\* the stream as the constructor returns it
StreamNew ==
    [pc |-> "readable",    \* or "closing" (close() with chunks queued), "closed",
                           \* "errored", "cancelled"
     queue |-> <<>>,       \* the chunks enqueued and not read
     received |-> 0,       \* message events delivered
     writing |-> <<>>,     \* the chunk the pipe has read and is writing to the remote
     consumed |-> 0,       \* chunks whose write to the remote completed
     lateCalls |-> {}]     \* the controller methods called when the stream was no longer
                           \* readable or close() had been called

InitStream ==
    /\ SessionInit
    /\ variant = 3
    /\ kvBound = TRUE
    /\ parser = ParserIdle
    /\ peer = NoPeer
    /\ active = 1
    /\ ui = UiIdle
    /\ upgrade = UpgradeIdle
    /\ stream = StreamNew

\* message listener: controller.enqueue(new Uint8Array(data)), whatever the
\* queue holds; enqueue throws in the listener once the stream is not readable
StreamMessage(b) ==
    /\ stream # StreamIdle
    /\ wsState = "OPEN"
    /\ stream.received < MaxStreamFrames
    /\ stream' = [stream EXCEPT
           !.received = @ + 1,
           !.queue = IF stream.pc = "readable" THEN Append(@, b) ELSE @,
           !.lateCalls = IF stream.pc = "readable" THEN @ ELSE @ \cup {"enqueue"}]
    /\ UNCHANGED <<variant, kvBound, frames, handlers, isHeaderParsed, remoteSocket, remotes,
                   wsState, closeCode, closeCalls, errorSeen, parser, peer, active, ui, upgrade>>

\* close listener: controller.close()
StreamClose ==
    /\ stream # StreamIdle
    /\ wsState \in {"OPEN", "CLOSING"}
    /\ wsState' = "CLOSED"
    /\ stream' = [stream EXCEPT
           !.pc = IF @ = "readable"
                  THEN (IF stream.queue = <<>> THEN "closed" ELSE "closing")
                  ELSE @,
           !.lateCalls = IF stream.pc = "readable" THEN @ ELSE @ \cup {"close"}]
    /\ UNCHANGED <<variant, kvBound, frames, handlers, isHeaderParsed, remoteSocket, remotes,
                   closeCode, closeCalls, errorSeen, parser, peer, active, ui, upgrade>>

\* error listener: controller.error(err)
StreamError ==
    /\ stream # StreamIdle
    /\ wsState = "OPEN"
    /\ ~errorSeen
    /\ errorSeen' = TRUE
    /\ stream' = [stream EXCEPT
           !.pc = IF @ \in {"readable", "closing"} THEN "errored" ELSE @,
           !.queue = IF stream.pc \in {"readable", "closing"} THEN <<>> ELSE @,
           !.lateCalls = IF stream.pc \in {"readable", "closing"} THEN @
                         ELSE @ \cup {"error"}]
    /\ UNCHANGED <<variant, kvBound, frames, handlers, isHeaderParsed, remoteSocket, remotes,
                   wsState, closeCode, closeCalls, parser, peer, active, ui, upgrade>>

\* pipeTo(remoteSocket.writable) reads the next chunk once the previous write
\* has completed
StreamRead ==
    /\ stream # StreamIdle
    /\ stream.pc \in {"readable", "closing"}
    /\ stream.queue # <<>>
    /\ stream.writing = <<>>
    /\ stream' = [stream EXCEPT
           !.queue = Tail(@),
           !.writing = <<Head(stream.queue)>>,
           !.pc = IF @ = "closing" /\ Len(stream.queue) = 1 THEN "closed" ELSE @]
    /\ UNCHANGED <<variant, kvBound, frames, handlers, isHeaderParsed, remoteSocket, remotes,
                   wsState, closeCode, closeCalls, errorSeen, parser, peer, active, ui, upgrade>>

\* the write to the remote completes; a failed write cancels the stream, and
\* cancel() closes an open transport with 1000
StreamWriteComplete(ok) ==
    /\ stream # StreamIdle
    /\ stream.writing # <<>>
    /\ LET cancels == ~ok /\ stream.pc \in {"readable", "closing"}
       IN  /\ stream' = [stream EXCEPT
                  !.writing = <<>>,
                  !.consumed = IF ok THEN @ + 1 ELSE @,
                  !.queue = IF cancels THEN <<>> ELSE @,
                  !.pc = IF cancels THEN "cancelled" ELSE @]
           /\ IF cancels /\ wsState = "OPEN"
              THEN /\ wsState' = CloseState(wsState)
                   /\ closeCode' = CloseCode(wsState, closeCode, NormalClose)
                   /\ closeCalls' = closeCalls + 1
              ELSE UNCHANGED <<wsState, closeCode, closeCalls>>
    /\ UNCHANGED <<variant, kvBound, frames, handlers, isHeaderParsed, remoteSocket, remotes,
                   errorSeen, parser, peer, active, ui, upgrade>>

NextStream ==
    \/ \E b \in StreamFrameKinds : StreamMessage(b)
    \/ StreamClose
    \/ StreamError
    \/ StreamRead
    \/ \E ok \in BOOLEAN : StreamWriteComplete(ok)

SpecStream == InitStream /\ [][NextStream]_vars

\* the client frames the stream holds that no write to the remote has consumed
HeldFrames == Len(stream.queue) + Len(stream.writing)

\* C30: the stream built by makeReadableWebSocketStream holds at most a
\* bounded number of client frames that the remote write has not consumed
\* (the stream's high-water mark and the one chunk being written), however
\* fast the client sends.
C30_StreamHoldsBoundedFrames ==
    stream # StreamIdle => HeldFrames <= HighWaterMark + 1

\* C33: the download loop never calls send on a client transport whose state
\* is not OPEN, and once it has read a chunk with the transport not open it
\* stops: it issues no further read and sends nothing more.
C33_DownloadSendsOnlyWhenOpen ==
    [][\A r \in DOMAIN remotes :
          /\ Len(remotes'[r].sent) > Len(remotes[r].sent) => wsState = "OPEN"
          /\ (remotes'[r].got > remotes[r].got /\ wsState # "OPEN") =>
                 /\ remotes'[r].reads = remotes[r].reads
                 /\ remotes'[r].loop = "stopped"
          /\ remotes[r].loop # "reading" =>
                 /\ remotes'[r].reads = remotes[r].reads
                 /\ remotes'[r].got = remotes[r].got
                 /\ remotes'[r].sent = remotes[r].sent]_vars

\* the loop of the second variant read a chunk with the transport not open,
\* dropped it and stopped
C33_Witness ==
    /\ variant = 2
    /\ wsState # "OPEN"
    /\ \E r \in DOMAIN remotes :
           /\ remotes[r].loop = "stopped"
           /\ remotes[r].got = Len(remotes[r].sent) + 1
           /\ remotes[r].reads = remotes[r].got

\* the handlers of the second variant that ended in a safeClose call, and the
\* copy loops that ended (finally: safeClose)
CloseCauses ==
    Cardinality({f \in DOMAIN handlers :
                    handlers[f].outcome \in {"header", "connect", "write", "locked"}})
        + Cardinality({r \in DOMAIN remotes : remotes[r].loop \in {"eof", "error", "stopped"}})

\* C36: in the second variant close() of the client transport is invoked at
\* most once per session: whatever combination of header rejection, connect
\* failure, write error and remote end of stream occurs, there is a single
\* close call and it keeps the code of the first cause.
C36_SafeCloseClosesOnce ==
    [][/\ closeCalls' <= 1
       /\ closeCalls' = 1 => closeCode' # <<>>
       /\ closeCode # <<>> => closeCode' = closeCode]_vars

\* the remote stream ended after a header was rejected with 1008: two causes,
\* one close call, with the code of the first
C36_Witness ==
    /\ variant = 2
    /\ CloseCauses >= 2
    /\ closeCalls = 1
    /\ closeCode = <<PolicyViolation>>
    /\ \E r \in DOMAIN remotes : remotes[r].loop = "eof"

(***************************************************************************)
(* SpecKey: the store keys of two headers, as parseVLESSHeader computes    *)
(* them (part_000:351-356, 1211-1216) with bytesToUUID.                    *)
(***************************************************************************)
\* ids that differ in one byte, in byte order, and in where a nibble falls
KeyIds ==
    { KnownId,
      OtherId,
      UnknownId,
      [k \in 1..16 |-> KnownId[17 - k]],                              \* all bytes reversed
      <<120, 86, 52, 18>> \o SubSeq(KnownId, 5, 16),                  \* first group reversed
      SubSeq(KnownId, 1, 15) \o <<238>>,                              \* last byte differs
      <<1, 16, 0, 0, 0, 0, 0, 0, 0, 0, 0, 0, 0, 0, 0, 0>>,
      <<17, 0, 0, 0, 0, 0, 0, 0, 0, 0, 0, 0, 0, 0, 0, 0>> }

\* the bytes after the id: two requests that differ in every field
KeyTails ==
    { <<0, 1, 0, 80, 1, 10, 0, 0, 5>>,
      <<2, 7, 7, 1, 1, 187, 2, 3, 97, 98, 99, 71, 69, 84>> }

KeyBufs == {<<0>> \o id \o t : id \in KeyIds, t \in KeyTails}

\* the text 12345678-9abc-def0-0123-456789abcdef
KnownIdText ==
    <<49, 50, 51, 52, 53, 54, 55, 56, 45, 57, 97, 98, 99, 45, 100, 101, 102, 48, 45,
      48, 49, 50, 51, 45, 52, 53, 54, 55, 56, 57, 97, 98, 99, 100, 101, 102>>

InitKey ==
    /\ SessionInit
    /\ Alone
    /\ variant \in {1, 2}
    /\ kvBound = TRUE
    /\ parser \in {[pc |-> "keys", first |-> a, second |-> b, keys |-> <<>>] :
                      a \in KeyBufs, b \in KeyBufs}

\* each header is parsed up to its store lookup
LookupKeys ==
    /\ parser.pc = "keys"
    /\ parser' = [parser EXCEPT
           !.pc = "looked",
           !.keys = <<LookupKey(parser.first), LookupKey(parser.second)>>]
    /\ UNCHANGED <<upgrade, ui, peer, active, stream, variant, kvBound, frames, handlers, isHeaderParsed,
                   remoteSocket, remotes, wsState, closeCode, closeCalls, errorSeen>>

NextKey == LookupKeys

SpecKey == InitKey /\ [][NextKey]_vars

\* the 16 bytes of a header at offsets 1..16
IdBytes(buf) == SubSeq(buf, 2, 17)

\* C34: the lookup key is an injective function of exactly the 16 header bytes
\* at offsets 1..16, in order and without byte swapping: two headers look up
\* the same key if and only if those bytes are equal, whatever the other bytes.
C34_KeyInjectiveInIdBytes ==
    parser.pc = "looked" =>
        /\ parser.keys[1] = parser.keys[2] <=> IdBytes(parser.first) = IdBytes(parser.second)
        /\ IdBytes(parser.first) = KnownId => parser.keys[1] = KnownIdText

\* two headers that differ in every byte after the id looked up one key, the
\* text of the known id
C34_Witness ==
    /\ parser.pc = "looked"
    /\ parser.first # parser.second
    /\ parser.keys[1] = parser.keys[2]
    /\ parser.keys[1] = KnownIdText

\* C32: makeReadableWebSocketStream never calls enqueue, close or error on a
\* stream controller that has already been closed or errored, for every order
\* of the transport's message, close and error events.
C32_NoCallOnFinishedController ==
    stream # StreamIdle => stream.lateCalls = {}

(***************************************************************************)
(* SpecUi: the React component VLESSVPNApp (src/worker.js): its state, the  *)
(* handlers handleConnect and handleReset, the inputs and the timers of     *)
(* setTimeout.  Time is counted in milliseconds, in steps of TickMs.        *)
(***************************************************************************)
MaxTime == 6000

MaxTimers == 3

TickMs == 500

\* setTimeout(() => setConnectionStatus(''), 3000)
ErrorClearDelay == 3000

\* await new Promise(resolve => setTimeout(resolve, 1500))
ConnectDelay == 1500

\* the component after its first render
UiNew ==
    [pc |-> "mounted",
     proxyHost |-> FALSE,          \* proxyHost is a non-empty string
     cdnDomain |-> FALSE,          \* cdnDomain is a non-empty string
     isConnecting |-> FALSE,
     connectionStatus |-> "",
     vlessConfig |-> FALSE,        \* vlessConfig is not null
     now |-> 0,
     timers |-> <<>>,              \* the pending timers, in the order they were set
     last |-> ""]                  \* the handler that ran last

InitUi ==
    /\ SessionInit
    /\ variant = 1
    /\ kvBound = TRUE
    /\ parser = ParserIdle
    /\ peer = NoPeer
    /\ active = 1
    /\ stream = StreamIdle
    /\ upgrade = UpgradeIdle
    /\ ui = UiNew

UiUnchanged ==
    UNCHANGED <<variant, kvBound, frames, handlers, isHeaderParsed, remoteSocket, remotes,
                wsState, closeCode, closeCalls, errorSeen, parser, peer, active, stream,
                upgrade>>

\* onChange of the proxy host input, shown while vlessConfig is null
UiSetProxyHost(filled) ==
    /\ ui # UiIdle
    /\ ~ui.vlessConfig
    /\ ui.proxyHost # filled
    /\ ui' = [ui EXCEPT !.proxyHost = filled, !.last = "setProxyHost"]
    /\ UiUnchanged

\* onChange of the CDN domain input
UiSetCdnDomain(filled) ==
    /\ ui # UiIdle
    /\ ~ui.vlessConfig
    /\ ui.cdnDomain # filled
    /\ ui' = [ui EXCEPT !.cdnDomain = filled, !.last = "setCdnDomain"]
    /\ UiUnchanged

\* a click on the connect button (shown while vlessConfig is null, disabled
\* while isConnecting): handleConnect up to its return or its await
UiHandleConnect ==
    /\ ui # UiIdle
    /\ ~ui.vlessConfig
    /\ ~ui.isConnecting
    /\ Len(ui.timers) < MaxTimers
    /\ IF ~ui.proxyHost \/ ~ui.cdnDomain
       THEN ui' = [ui EXCEPT
                !.connectionStatus = "error",
                !.timers = Append(@, [kind |-> "clear", due |-> ui.now + ErrorClearDelay]),
                !.last = "handleConnect"]
       ELSE ui' = [ui EXCEPT
                !.isConnecting = TRUE,
                !.connectionStatus = "connecting",
                !.timers = Append(@, [kind |-> "resolve", due |-> ui.now + ConnectDelay]),
                !.last = "handleConnect"]
    /\ UiUnchanged

\* timer i is the next to fire: it is due, and no timer that is due earlier,
\* or as early and set before it, is pending
FiresNext(i) ==
    /\ i \in DOMAIN ui.timers
    /\ ui.timers[i].due <= ui.now
    /\ \A j \in DOMAIN ui.timers :
           \/ ui.timers[j].due > ui.timers[i].due
           \/ ui.timers[j].due = ui.timers[i].due /\ j >= i

\* the sequence s without its element i
Without(s, i) == SubSeq(s, 1, i - 1) \o SubSeq(s, i + 1, Len(s))

\* the timer of a failed handleConnect fires: setConnectionStatus('')
UiClearTimer(i) ==
    /\ ui # UiIdle
    /\ FiresNext(i)
    /\ ui.timers[i].kind = "clear"
    /\ ui' = [ui EXCEPT
           !.connectionStatus = "",
           !.timers = Without(@, i),
           !.last = "timer"]
    /\ UiUnchanged

\* the delay of handleConnect ends and the handler runs to its end:
\* setVlessConfig, setAccounts, setConnectionStatus('success'), and in
\* finally setIsConnecting(false)
UiConnectResumes(i) ==
    /\ ui # UiIdle
    /\ FiresNext(i)
    /\ ui.timers[i].kind = "resolve"
    /\ ui' = [ui EXCEPT
           !.vlessConfig = TRUE,
           !.connectionStatus = "success",
           !.isConnecting = FALSE,
           !.timers = Without(@, i),
           !.last = "handleConnect"]
    /\ UiUnchanged

\* a click on the reset button, shown while vlessConfig is set
UiHandleReset ==
    /\ ui # UiIdle
    /\ ui.vlessConfig
    /\ ui' = [ui EXCEPT
           !.vlessConfig = FALSE,
           !.connectionStatus = "",
           !.proxyHost = FALSE,
           !.cdnDomain = FALSE,
           !.last = "handleReset"]
    /\ UiUnchanged

\* time passes while no timer is due
UiTick ==
    /\ ui # UiIdle
    /\ ui.now < MaxTime
    /\ \A i \in DOMAIN ui.timers : ui.timers[i].due > ui.now
    /\ ui' = [ui EXCEPT !.now = @ + TickMs]
    /\ UiUnchanged

NextUi ==
    \/ \E filled \in BOOLEAN : UiSetProxyHost(filled)
    \/ \E filled \in BOOLEAN : UiSetCdnDomain(filled)
    \/ UiHandleConnect
    \/ \E i \in 1..MaxTimers : UiClearTimer(i)
    \/ \E i \in 1..MaxTimers : UiConnectResumes(i)
    \/ UiHandleReset
    \/ UiTick

SpecUi == InitUi /\ [][NextUi]_vars

\* C35: once handleConnect has set connectionStatus to 'success', the status
\* stays 'success' until handleReset or a later handleConnect call changes it;
\* no timer started by an earlier failed handleConnect clears it.
C35_SuccessStaysUntilResetOrConnect ==
    [][(ui # UiIdle /\ ui.connectionStatus = "success"
           /\ ui'.connectionStatus # "success") =>
          ui'.last \in {"handleReset", "handleConnect"}]_vars

(***************************************************************************)
(* SpecUpgrade: the upgrade request of a session.  fetch hands it to       *)
(* handleVLESSWebSocket: the first variant (part_000:219-240) starts       *)
(* handleVLESSConnection and returns the 101 response, after which the     *)
(* client can send; the third variant (part_000:1862-1951) builds the      *)
(* stream of the client transport and calls getWriter() on it.             *)
(***************************************************************************)
\* the methods of a ReadableStream
ReadableStreamMethods == {"cancel", "getReader", "pipeThrough", "pipeTo", "tee"}

\* the request has reached handleVLESSWebSocket
UpgradeRequested == [pc |-> "request", response |-> ""]

InitUpgrade ==
    /\ SessionInit
    /\ variant \in {1, 3}
    /\ kvBound = TRUE
    /\ parser = ParserIdle
    /\ peer = NoPeer
    /\ active = 1
    /\ stream = StreamIdle
    /\ ui = UiIdle
    /\ upgrade = UpgradeRequested

\* first variant: handleVLESSConnection(server, env) registers the listeners
\* and the 101 response is returned
V1Upgrade ==
    /\ variant = 1
    /\ upgrade = UpgradeRequested
    /\ upgrade' = [pc |-> "returned", response |-> "101"]
    /\ UNCHANGED <<variant, kvBound, frames, handlers, isHeaderParsed, remoteSocket, remotes,
                   wsState, closeCode, closeCalls, errorSeen, parser, peer, active, stream, ui>>

\* third variant: makeReadableWebSocketStream(server, log), then
\* readableWebSocketStream.getWriter() outside the try block: a TypeError if
\* the stream has no such method, which rejects the promise fetch returns;
\* otherwise the handler goes on to await the first chunk, the response not
\* yet returned
V3Upgrade ==
    /\ variant = 3
    /\ upgrade = UpgradeRequested
    /\ stream' = StreamNew
    /\ upgrade' = IF "getWriter" \in ReadableStreamMethods
                  THEN [pc |-> "awaitFirst", response |-> ""]
                  ELSE [pc |-> "rejected", response |-> "exception"]
    /\ UNCHANGED <<variant, kvBound, frames, handlers, isHeaderParsed, remoteSocket, remotes,
                   wsState, closeCode, closeCalls, errorSeen, parser, peer, active, ui>>

\* the client of an upgraded session sends its frames
NextUpgrade ==
    \/ V1Upgrade
    \/ V3Upgrade
    \/ (upgrade.response = "101" /\ NextV1Down)

SpecUpgrade == InitUpgrade /\ [][NextUpgrade]_vars

\* C31: in the third variant handleVLESSWebSocket returns the 101 upgrade
\* response without waiting for a client frame, so that a client that sends
\* its header after the response has it processed.
C31_UpgradeAnsweredBeforeFrames ==
    (variant = 3 /\ upgrade.pc \notin {"none", "request"}) => upgrade.response = "101"

====
